---- MODULE Spec2Model ----
(***************************************************************************)
(* A model of divan's sample-driven measurement engine:                    *)
(* BenchContext::bench_loop, BenchContext::sample_recorder and             *)
(* BenchContext::compute_stats of src/src/bench/mod.rs, with               *)
(* util::slice_middle.  Durations are picoseconds, as in FineDuration.     *)
(* The tree the benchmark entries are organised in, EntryTree of           *)
(* src/src/entry/tree.rs, is modelled next to it.                          *)
(***************************************************************************)
EXTENDS Integers, Sequences, FiniteSets, TLC

VARIABLES
    options,          \* BenchOptions: min_time, max_time, sample_count, sample_size, skip_ext_time
    shared,           \* SharedContext: action, bench_overhead, the timer's precision
    types,            \* static properties of I and O: size_of == 0, needs_drop
    gen_input,        \* the user's input generator
    benched,          \* the user's benchmarked closure: how long its calls take
    sort_ties,        \* how the unstable sort orders samples of the same duration
    overflow_checks,  \* whether the build panics on integer overflow (it wraps otherwise)
    pc,               \* "new" | "loop" | "done" | "unused" | "panicked"
    did_run,          \* BenchContext::did_run
    samples,          \* BenchContext::samples: [all: Seq(Sample), sample_size]
    counters,         \* BenchContext::counters: kind -> [uses_input, counts]
    current_mode,     \* bench_loop local: [kind, sample_size]
    rem_samples,      \* bench_loop local: Option<u32>
    timer_precision,  \* bench_loop local
    initial_start,    \* bench_loop local: Option<Timestamp>
    elapsed_picos,    \* bench_loop local
    now,              \* the timer's reading when it was last read (the latest sample_end)
    trace,            \* what the sample recorder did in the latest sample it returned from, in order
    last,             \* the latest loop iteration: its condition inputs and the durations measured,
                      \* or the callback that panicked in it
    calls,            \* how often each user callback has run so far
    iters,            \* loop iterations executed so far
    stats,            \* what compute_stats returned, once it was called
    middle,           \* what util::slice_middle returned to compute_stats
    benches,          \* the entries EntryTree::from_benches is given, in order
    built,            \* how many of them from_benches has inserted
    tree,             \* the Vec<EntryTree> under construction and in use
    tree_was,         \* tree before the latest operation on it
    tree_op           \* the latest operation on tree, with its argument

vars == <<options, shared, types, gen_input, benched, sort_ties, overflow_checks, pc, did_run, samples, counters, current_mode,
          rem_samples, timer_precision, initial_start, elapsed_picos, now,
          trace, last, calls, iters, stats, middle,
          benches, built, tree, tree_was, tree_op>>

config == <<options, shared, types, gen_input, benched, sort_ties, overflow_checks>>

\* The variables of the entry tree.
registry == <<benches, built, tree, tree_was, tree_op>>

\* The variables of a benchmark context.
context == <<config, pc, did_run, samples, counters, current_mode, rem_samples,
             timer_precision, initial_start, elapsed_picos, now, trace, last, calls,
             iters, stats, middle>>

----------------------------------------------------------------------------
(* Bounds of the model. *)

\* Loop iterations (samples recorded by the sample recorder) per run.
MaxIters == 3
\* Largest sample_size option tried.
MaxOptSampleSize == 2
\* Largest sample_count option tried.
MaxOptSampleCount == 2
\* The most entries from_benches is given.
MaxBenches == 3

\* MaxCountUInt::MAX of the model: counts are kept in a width TLC can multiply in.
MaxCount == 15

\* The bits of a sample size, a u32, in the model: the tuner doubles the sample size
\* once per sample, and a run of the model has few samples.
SampleSizeBits == 4

----------------------------------------------------------------------------
(* Program constants and the environment the program runs in. *)

\* Option::None of sample_count, sample_size, rem_samples, initial_start.
NONE == -1

DEFAULT_SAMPLE_COUNT == 100

\* "If within 100x timer precision, continue tuning."
TunePrecisionMultiple == 100

\* "Progress by at least 1ns": the floor of the skip_ext_time advance, in picoseconds.
MinProgressPicos == 1000

\* FineDuration::default()
ZeroDuration == 0

KnownCounterKinds == <<"Bytes", "Chars", "Items">>
Kinds == {KnownCounterKinds[i] : i \in DOMAIN KnownCounterKinds}

\* The timer's precision: the smallest nonzero interval it can observe.
Precisions == {10}
\* An interval the timer measures is zero or at least its precision.
RawDurations == {0, 150, 1200}
\* Time outside the timed loop, from the previous reading of the timer to
\* sample_start: dropping the previous sample's outputs and inputs, generating inputs.
ExtDurations == {0, 700}
\* SharedContext::bench_overhead, per iteration.
Overheads == {0, 3, 149}
MinTimes == {0, 1500}
MaxTimes == {0, 2000, 1000000}
\* A "steady" benchmark takes the same time in every call, of benched and of
\* gen_input; the calls of a "varying" one take any of the times above.
SteadyIterPicos == 400
SteadyGenPicos == 100
\* The samples of a "borderline" benchmark measure around 100 times the precision.
BorderlineDurations == {0, 1000, 1005, 1010}
\* The samples of an "instant" benchmark measure less than 100 times the precision,
\* whatever their size.
InstantDurations == {0, 150}
\* sample_end - sample_start for a sample of n iterations.
Measurable(b, n) ==
    CASE b = "steady" -> {n * SteadyIterPicos}
      [] b = "borderline" -> BorderlineDurations
      [] b = "instant" -> InstantDurations
      [] OTHER -> RawDurations
\* The time from the previous reading of the timer to sample_start.
External(b, n) ==
    CASE b = "steady" -> {n * SteadyGenPicos}
      [] b = "borderline" -> {0}
      [] b = "instant" -> {0}
      [] OTHER -> ExtDurations
\* The user's generators: the k-th call of gen_input returns GenInput(g, k), a
\* buffer of that length.
Generators == {"same", "alternating", "huge"}
GenInput(g, k) ==
    CASE g = "huge" -> MaxCount
      [] g = "same" \/ k % 2 = 1 -> 2
      [] OTHER -> 5

Max(a, b) == IF a > b THEN a ELSE b

\* u128::saturating_sub
SaturatingSub(a, b) == IF a > b THEN a - b ELSE 0

\* u128::MAX of the model: the square of MaxCountUInt's range, as u128 is of u64.
MaxTotal == ((MaxCount + 1) * (MaxCount + 1)) - 1

\* The value a u128 sum built with saturating_add ends at.
SaturatedTotal(sum) == IF sum > MaxTotal THEN MaxTotal ELSE sum

\* total as MaxCountUInt
AsMaxCountUInt(total) == total % (MaxCount + 1)

RECURSIVE SumSeq(_)
SumSeq(s) ==
    IF s = <<>> THEN 0
    ELSE IF Len(s) = 1 THEN s[1]
    ELSE LET mid == Len(s) \div 2
         IN  SumSeq(SubSeq(s, 1, mid)) + SumSeq(SubSeq(s, mid + 1, Len(s)))

----------------------------------------------------------------------------
(* BenchOptions and CounterCollection, as bench_loop uses them. *)

min_time == options.min_time
max_time == options.max_time

\* options.sample_count.unwrap_or(1), the capacity reserved for samples.
sample_count_or_default_One ==
    IF options.sample_count # NONE THEN options.sample_count ELSE 1

\* options.sample_count.unwrap_or(DEFAULT_SAMPLE_COUNT)
sample_count_or_default ==
    IF options.sample_count # NONE THEN options.sample_count ELSE DEFAULT_SAMPLE_COUNT

\* BenchOptions::has_samples
has_samples == options.sample_count # 0

\* CounterCollection::uses_input_counts
uses_input_counts(cs, kind) == cs[kind].uses_input

\* CounterCollection::get_input_count: the user's counter applied to one input.
get_input_count(cs, kind, input) ==
    IF cs[kind].uses_input THEN (IF kind = "Items" THEN 1 ELSE input) ELSE NONE

\* CounterCollection::clear_input_counts
clear_input_counts(cs) ==
    [k \in Kinds |-> IF cs[k].uses_input THEN [cs[k] EXCEPT !.counts = <<>>] ELSE cs[k]]

\* CounterCollection::push_counter
push_counter(cs, kind, count) ==
    [cs EXCEPT ![kind].counts = Append(@, count)]

AbsentCounter == [uses_input |-> FALSE, counts |-> <<>>]
FixedCounter(c) == [uses_input |-> FALSE, counts |-> <<c>>]
InputCounter == [uses_input |-> TRUE, counts |-> <<>>]

\* options.counters.to_collection(), with the input counters the Bencher installs.
NoCounters == [k \in Kinds |-> AbsentCounter]
SomeCounters ==
    [k \in Kinds |-> CASE k = "Bytes" -> InputCounter
                      [] k = "Chars" -> FixedCounter(7)
                      [] OTHER -> InputCounter]

----------------------------------------------------------------------------
(* BenchMode *)

\* Test carries no sample_size: the field is a placeholder.
TestMode == [kind |-> "Test", sample_size |-> 0]
TuneMode(n) == [kind |-> "Tune", sample_size |-> n]
CollectMode(n) == [kind |-> "Collect", sample_size |-> n]

is_test(m) == m.kind = "Test"
is_tune(m) == m.kind = "Tune"
is_collect(m) == m.kind = "Collect"

\* mode_sample_size that reads the field whatever the variant.
mode_sample_size_Field(m) == m.sample_size

\* BenchMode::sample_size
mode_sample_size(m) == IF m.kind = "Test" THEN 1 ELSE m.sample_size

\* initial_mode that looks at the sample_size option before the action.
initial_mode_SizeFirst ==
    IF options.sample_size # NONE THEN CollectMode(options.sample_size)
    ELSE IF shared.action = "test" THEN TestMode
    ELSE TuneMode(1)

\* BenchContext::initial_mode
initial_mode ==
    IF shared.action = "test" THEN TestMode
    ELSE IF options.sample_size # NONE THEN CollectMode(options.sample_size)
    ELSE TuneMode(1)

----------------------------------------------------------------------------
(* The sample recorder. *)

Ev(op, i) == [op |-> op, i |-> i]

RECURSIVE Flatten(_)
\* The events of a loop, one sequence of events per iteration.
Flatten(ss) == IF ss = <<>> THEN <<>> ELSE Head(ss) \o Flatten(Tail(ss))

\* UsesCountedLoop for an input without storage and an output that has neither
\* storage nor drop, or that needs drop.
UsesCountedLoop_DropWithStorage(t) ==
    \/ t.i_zst /\ t.o_zst /\ ~t.o_drop
    \/ t.i_zst /\ t.o_drop

\* The first branch of sample_recorder: a range is used instead of defer_store.
UsesCountedLoop(t) ==
    \/ t.i_zst /\ t.o_zst
    \/ t.i_zst /\ ~t.o_drop

\* defer_store.slots() is Ok (slot pairs) when the output needs to be dropped.
SlotsHaveOutputs(t) == t.o_drop

GenInputs(n) == Flatten([k \in 1..n |-> <<Ev("gen_input", k), Ev("count_input", k)>>])

\* CountedLoopEvents that calls gen_input once instead of n times.
CountedLoopEvents_GenOnce(t, n) ==
    GenInputs(IF n > 0 THEN 1 ELSE 0)
    \o <<Ev("sample_start", 0)>>
    \o Flatten([k \in 1..n |-> <<Ev("benched", k)>>])
    \o <<Ev("sample_end", 0)>>
    \o Flatten([k \in 1..n |->
            (IF t.o_zst THEN <<Ev("drop_output", k)>> ELSE <<>>)
            \o (IF t.i_drop THEN <<Ev("drop_input", k)>> ELSE <<>>)])

\* The counted loop: neither inputs nor outputs are stored.
CountedLoopEvents(t, n) ==
    GenInputs(n)
    \o <<Ev("sample_start", 0)>>
    \o Flatten([k \in 1..n |-> <<Ev("benched", k)>>])
    \o <<Ev("sample_end", 0)>>
    \o Flatten([k \in 1..n |->
            (IF t.o_zst THEN <<Ev("drop_output", k)>> ELSE <<>>)
            \o (IF t.i_drop THEN <<Ev("drop_input", k)>> ELSE <<>>)])

\* SlotPairEvents that drops each output in the sample loop instead of storing it.
SlotPairEvents_DropInLoop(t, n) ==
    <<Ev("prepare", 0)>>
    \o GenInputs(n)
    \o <<Ev("sample_start", 0)>>
    \o Flatten([k \in 1..n |-> <<Ev("benched", k), Ev("drop_output", k)>>])
    \o <<Ev("sample_end", 0)>>
    \o (IF t.i_drop THEN Flatten([k \in 1..n |-> <<Ev("drop_input", k)>>]) ELSE <<>>)

\* SlotPairEvents that drops each slot's input before its output.
SlotPairEvents_InputFirst(t, n) ==
    <<Ev("prepare", 0)>>
    \o GenInputs(n)
    \o <<Ev("sample_start", 0)>>
    \o Flatten([k \in 1..n |-> <<Ev("benched", k), Ev("store_output", k)>>])
    \o <<Ev("sample_end", 0)>>
    \o Flatten([k \in 1..n |->
            (IF t.i_drop THEN <<Ev("drop_input", k)>> ELSE <<>>)
            \o <<Ev("drop_output", k)>>])

\* defer_store.slots() is Ok: inputs and outputs are stored in slot pairs.
SlotPairEvents(t, n) ==
    <<Ev("prepare", 0)>>
    \o GenInputs(n)
    \o <<Ev("sample_start", 0)>>
    \o Flatten([k \in 1..n |-> <<Ev("benched", k), Ev("store_output", k)>>])
    \o <<Ev("sample_end", 0)>>
    \o Flatten([k \in 1..n |->
            <<Ev("drop_output", k)>>
            \o (IF t.i_drop THEN <<Ev("drop_input", k)>> ELSE <<>>)])

\* defer_store.slots() is Err: only inputs are stored.
InputOnlyEvents(t, n) ==
    <<Ev("prepare", 0)>>
    \o GenInputs(n)
    \o <<Ev("sample_start", 0)>>
    \o Flatten([k \in 1..n |-> <<Ev("benched", k)>>])
    \o <<Ev("sample_end", 0)>>
    \o (IF t.i_drop THEN Flatten([k \in 1..n |-> <<Ev("drop_input", k)>>]) ELSE <<>>)

\* The closure sample_recorder returns, run for one sample of sample_size n.
RecordSampleEvents(t, n) ==
    IF UsesCountedLoop(t) THEN CountedLoopEvents(t, n)
    ELSE IF SlotsHaveOutputs(t) THEN SlotPairEvents(t, n)
    ELSE InputOnlyEvents(t, n)

CountOp(tr, op) == Cardinality({j \in DOMAIN tr : tr[j].op = op})

NoCalls == [gen_input |-> 0, count_input |-> 0, benched |-> 0,
            drop_output |-> 0, drop_input |-> 0]

AddCalls(c, tr) == [op \in DOMAIN c |-> c[op] + CountOp(tr, op)]

----------------------------------------------------------------------------
(* The driver loop. *)

NoIteration == [started |-> FALSE]

\* compute_stats was not called.
NoStats == [called |-> FALSE]

\* No operation on the entry tree yet.
NoTreeOp == [op |-> "none"]

\* No entry tree is being built.
NoEntryTree ==
    /\ benches = <<>>
    /\ built = 0
    /\ tree = <<>>
    /\ tree_was = <<>>
    /\ tree_op = NoTreeOp

\* compute_stats panicked.
StatsPanic == [called |-> TRUE, returned |-> FALSE]


\* Every combination of the static properties sample_recorder branches on.
AllTypes == [i_zst : BOOLEAN, i_drop : BOOLEAN, o_zst : BOOLEAN, o_drop : BOOLEAN]

\* The unit input and output of Bencher::bench.
UnitTypes == [i_zst |-> TRUE, i_drop |-> FALSE, o_zst |-> TRUE, o_drop |-> FALSE]
\* An input and an output that both own storage and need drop.
OwnedTypes == [i_zst |-> FALSE, i_drop |-> TRUE, o_zst |-> FALSE, o_drop |-> TRUE]

\* The benchmarks the driver is run with: Bencher::bench without any counter, or
\* bench_refs with per-input counters over buffers of alternating length.
DriverUsers ==
    { [types |-> UnitTypes, counters |-> NoCounters, gen_input |-> "same"],
      [types |-> OwnedTypes, counters |-> SomeCounters, gen_input |-> "alternating"] }

Init ==
    /\ options \in [min_time : MinTimes, max_time : MaxTimes,
                    sample_count : {NONE} \cup 0..MaxOptSampleCount,
                    sample_size : {NONE} \cup 0..MaxOptSampleSize,
                    skip_ext_time : BOOLEAN]
    /\ shared \in [action : {"test", "bench"}, bench_overhead : Overheads,
                   precision : Precisions]
    /\ \E user \in DriverUsers :
            types = user.types /\ counters = user.counters /\ gen_input = user.gen_input
    /\ benched = "varying"
    /\ sort_ties = "in order"
    /\ overflow_checks = FALSE
    /\ pc = "new"
    /\ did_run = FALSE
    /\ samples = [all |-> <<>>, sample_size |-> 0]
    /\ current_mode = TestMode
    /\ rem_samples = NONE
    /\ timer_precision = ZeroDuration
    /\ initial_start = NONE
    /\ elapsed_picos = 0
    /\ now = 0
    /\ trace = <<>>
    /\ last = NoIteration
    /\ calls = NoCalls
    /\ iters = 0
    /\ stats = NoStats
    /\ middle = <<>>
    /\ NoEntryTree

\* The benchmark body returns without calling bench, bench_values or bench_refs.
NeverBench ==
    /\ pc = "new"
    /\ pc' = "unused"
    /\ UNCHANGED <<config, registry, stats, middle, did_run, samples, counters, current_mode, rem_samples,
                   timer_precision, initial_start, elapsed_picos, now, trace, last,
                   calls, iters>>

\* BenchLoopShortCircuit with did_run set only once the loop has work to do.
BenchLoopShortCircuit_DidRunLate ==
    /\ pc = "new"
    /\ max_time = 0 \/ ~has_samples
    /\ current_mode' = initial_mode
    /\ pc' = "done"
    /\ UNCHANGED <<config, registry, stats, middle, did_run, samples, counters, rem_samples, timer_precision,
                   initial_start, elapsed_picos, now, trace, last, calls, iters>>

\* ShortCircuits without the test of the sample count.
ShortCircuits_MaxTimeOnly == max_time = 0

\* "Don't bother running if user specifies 0 max time or 0 samples."
ShortCircuits == max_time = 0 \/ ~has_samples

\* bench_loop, from its entry to the early return.
BenchLoopShortCircuit ==
    /\ pc = "new"
    /\ ShortCircuits
    /\ did_run' = TRUE
    /\ current_mode' = initial_mode
    /\ pc' = "done"
    /\ UNCHANGED <<config, registry, stats, middle, samples, counters, rem_samples, timer_precision,
                   initial_start, elapsed_picos, now, trace, last, calls, iters>>

\* BenchLoopEnter that forgets to set did_run.
BenchLoopEnter_NoDidRun ==
    /\ pc = "new"
    /\ ~ShortCircuits
    /\ current_mode' = initial_mode
    /\ rem_samples' = IF is_collect(initial_mode) THEN sample_count_or_default ELSE NONE
    /\ timer_precision' = IF is_tune(initial_mode) THEN shared.precision ELSE ZeroDuration
    /\ initial_start' = IF options.skip_ext_time THEN NONE ELSE now
    /\ elapsed_picos' = 0
    /\ pc' = "loop"
    /\ UNCHANGED <<config, registry, stats, middle, did_run, samples, counters, now, trace, last, calls, iters>>

\* bench_loop, from its entry to the first evaluation of the loop condition.
BenchLoopEnter ==
    /\ pc = "new"
    /\ ~ShortCircuits
    /\ did_run' = TRUE
    /\ current_mode' = initial_mode
    /\ rem_samples' = IF is_collect(initial_mode) THEN sample_count_or_default ELSE NONE
    /\ timer_precision' = IF is_tune(initial_mode) THEN shared.precision ELSE ZeroDuration
    /\ initial_start' = IF options.skip_ext_time THEN NONE ELSE now
    /\ elapsed_picos' = 0
    /\ pc' = "loop"
    /\ UNCHANGED <<config, registry, stats, middle, samples, counters, now, trace, last, calls, iters>>

\* LoopCondition that asks for the expected samples before it looks at the budget.
LoopCondition_SamplesFirst(elapsed, rem, minp, maxp) ==
    IF (IF rem # NONE THEN rem ELSE 1) > 0 THEN TRUE
    ELSE IF elapsed >= maxp THEN FALSE
    ELSE elapsed < minp

\* The condition of bench_loop's while loop.
LoopCondition(elapsed, rem, minp, maxp) ==
    IF elapsed >= maxp THEN FALSE
    ELSE IF (IF rem # NONE THEN rem ELSE 1) > 0 THEN TRUE
    ELSE elapsed < minp

\* The recorder is run with every combination of input and output types, under
\* options that leave the time budgets out of the way.
InitRecorder ==
    /\ options \in [min_time : {0}, max_time : {0, 1000000},
                    sample_count : {0, MaxOptSampleCount},
                    sample_size : {NONE} \cup 0..MaxOptSampleSize,
                    skip_ext_time : {TRUE}]
    /\ shared \in [action : {"test", "bench"}, bench_overhead : {0},
                   precision : Precisions]
    /\ types \in AllTypes
    /\ counters = SomeCounters
    /\ gen_input = "alternating"
    /\ benched = "varying"
    /\ sort_ties = "in order"
    /\ overflow_checks = FALSE
    /\ pc = "new"
    /\ did_run = FALSE
    /\ samples = [all |-> <<>>, sample_size |-> 0]
    /\ current_mode = TestMode
    /\ rem_samples = NONE
    /\ timer_precision = ZeroDuration
    /\ initial_start = NONE
    /\ elapsed_picos = 0
    /\ now = 0
    /\ trace = <<>>
    /\ last = NoIteration
    /\ calls = NoCalls
    /\ iters = 0
    /\ stats = NoStats
    /\ middle = <<>>
    /\ NoEntryTree

\* The driver is run on a steady benchmark, with and without a sample count.
InitSteady ==
    /\ options \in [min_time : MinTimes, max_time : MaxTimes,
                    sample_count : {NONE} \cup 0..MaxOptSampleCount,
                    sample_size : {NONE} \cup 0..MaxOptSampleSize,
                    skip_ext_time : BOOLEAN]
    /\ shared \in [action : {"test", "bench"}, bench_overhead : {0},
                   precision : Precisions]
    /\ \E user \in DriverUsers :
            types = user.types /\ counters = user.counters /\ gen_input = user.gen_input
    /\ benched = "steady"
    /\ sort_ties = "in order"
    /\ overflow_checks = FALSE
    /\ pc = "new"
    /\ did_run = FALSE
    /\ samples = [all |-> <<>>, sample_size |-> 0]
    /\ current_mode = TestMode
    /\ rem_samples = NONE
    /\ timer_precision = ZeroDuration
    /\ initial_start = NONE
    /\ elapsed_picos = 0
    /\ now = 0
    /\ trace = <<>>
    /\ last = NoIteration
    /\ calls = NoCalls
    /\ iters = 0
    /\ stats = NoStats
    /\ middle = <<>>
    /\ NoEntryTree

\* The driver is run on benchmarks whose samples measure around the threshold of
\* the tuner.
InitTune ==
    /\ options \in [min_time : {0}, max_time : {0, 1000000},
                    sample_count : {NONE} \cup 0..MaxOptSampleCount,
                    sample_size : {NONE, MaxOptSampleSize},
                    skip_ext_time : {FALSE}]
    /\ shared \in [action : {"test", "bench"}, bench_overhead : {0},
                   precision : Precisions]
    /\ \E user \in DriverUsers :
            types = user.types /\ counters = user.counters /\ gen_input = user.gen_input
    /\ benched = "borderline"
    /\ sort_ties = "in order"
    /\ overflow_checks = FALSE
    /\ pc = "new"
    /\ did_run = FALSE
    /\ samples = [all |-> <<>>, sample_size |-> 0]
    /\ current_mode = TestMode
    /\ rem_samples = NONE
    /\ timer_precision = ZeroDuration
    /\ initial_start = NONE
    /\ elapsed_picos = 0
    /\ now = 0
    /\ trace = <<>>
    /\ last = NoIteration
    /\ calls = NoCalls
    /\ iters = 0
    /\ stats = NoStats
    /\ middle = <<>>
    /\ NoEntryTree

\* The driver tunes the sample size for benchmarks whose samples stay within 100
\* times the precision, in a build with overflow checks and in one without.
InitDoubling ==
    /\ options \in [min_time : {0}, max_time : {2000, 1000000},
                    sample_count : {NONE} \cup 0..MaxOptSampleCount,
                    sample_size : {NONE},
                    skip_ext_time : BOOLEAN]
    /\ shared \in [action : {"bench"}, bench_overhead : {0, 3},
                   precision : Precisions]
    /\ \E user \in DriverUsers :
            types = user.types /\ counters = user.counters /\ gen_input = user.gen_input
    /\ benched = "instant"
    /\ sort_ties = "in order"
    /\ overflow_checks \in BOOLEAN
    /\ pc = "new"
    /\ did_run = FALSE
    /\ samples = [all |-> <<>>, sample_size |-> 0]
    /\ current_mode = TestMode
    /\ rem_samples = NONE
    /\ timer_precision = ZeroDuration
    /\ initial_start = NONE
    /\ elapsed_picos = 0
    /\ now = 0
    /\ trace = <<>>
    /\ last = NoIteration
    /\ calls = NoCalls
    /\ iters = 0
    /\ stats = NoStats
    /\ middle = <<>>
    /\ NoEntryTree

\* The driver is run with per-input counters over inputs whose count is
\* MaxCountUInt::MAX, and over buffers of alternating length.
InitCounts ==
    /\ options \in [min_time : {0}, max_time : {0, 1000000},
                    sample_count : {NONE} \cup 0..MaxOptSampleCount,
                    sample_size : {NONE} \cup 0..MaxOptSampleSize,
                    skip_ext_time : {TRUE}]
    /\ shared \in [action : {"test", "bench"}, bench_overhead : {0},
                   precision : Precisions]
    /\ types = OwnedTypes
    /\ counters = SomeCounters
    /\ gen_input \in {"huge", "alternating"}
    /\ benched = "varying"
    /\ sort_ties = "in order"
    /\ overflow_checks = FALSE
    /\ pc = "new"
    /\ did_run = FALSE
    /\ samples = [all |-> <<>>, sample_size |-> 0]
    /\ current_mode = TestMode
    /\ rem_samples = NONE
    /\ timer_precision = ZeroDuration
    /\ initial_start = NONE
    /\ elapsed_picos = 0
    /\ now = 0
    /\ trace = <<>>
    /\ last = NoIteration
    /\ calls = NoCalls
    /\ iters = 0
    /\ stats = NoStats
    /\ middle = <<>>
    /\ NoEntryTree

\* The driver is run with external time skipped, on benchmarks whose samples may
\* measure as zero.
InitLive ==
    /\ options \in [min_time : MinTimes, max_time : MaxTimes,
                    sample_count : {NONE} \cup 0..MaxOptSampleCount,
                    sample_size : {NONE} \cup 0..MaxOptSampleSize,
                    skip_ext_time : {TRUE}]
    /\ shared \in [action : {"test", "bench"}, bench_overhead : {0},
                   precision : Precisions]
    /\ \E user \in DriverUsers :
            types = user.types /\ counters = user.counters /\ gen_input = user.gen_input
    /\ benched = "varying"
    /\ sort_ties = "in order"
    /\ overflow_checks = FALSE
    /\ pc = "new"
    /\ did_run = FALSE
    /\ samples = [all |-> <<>>, sample_size |-> 0]
    /\ current_mode = TestMode
    /\ rem_samples = NONE
    /\ timer_precision = ZeroDuration
    /\ initial_start = NONE
    /\ elapsed_picos = 0
    /\ now = 0
    /\ trace = <<>>
    /\ last = NoIteration
    /\ calls = NoCalls
    /\ iters = 0
    /\ stats = NoStats
    /\ middle = <<>>
    /\ NoEntryTree

\* The loop condition is false: bench_loop returns.
LoopExit ==
    /\ pc = "loop"
    /\ ~LoopCondition(elapsed_picos, rem_samples, min_time, max_time)
    /\ pc' = "done"
    /\ UNCHANGED <<config, registry, stats, middle, did_run, samples, counters, current_mode, rem_samples,
                   timer_precision, initial_start, elapsed_picos, now, trace, last,
                   calls, iters>>

\* RoundUpZero without the rounding.
RoundUpZero_Never(duration, precision) == duration

\* "Round up to timer precision if the duration is zero."
RoundUpZero(duration, precision) == IF duration = 0 THEN precision ELSE duration

\* u32::MAX of the model.
MaxSampleSize == (2 ^ SampleSizeBits) - 1

\* sample_size * 2 does not fit a u32.
DoubleOverflows(sample_size) == sample_size * 2 > MaxSampleSize

\* sample_size * 2 without overflow checks, in the width of a u32.
WrappingDouble(sample_size) == (sample_size * 2) % (MaxSampleSize + 1)

\* The tuner goes on with a larger sample size: "If within 100x timer precision,
\* continue tuning."
ContinuesTuning(raw_duration, precision) ==
    LET precision_multiple == raw_duration \div precision
    IN  precision_multiple <= TunePrecisionMultiple

\* The mode after a sample measured in Tune mode.
TunedMode(mode, raw_duration, precision) ==
    IF ContinuesTuning(raw_duration, precision)
    THEN TuneMode(WrappingDouble(mode.sample_size))
    ELSE CollectMode(mode.sample_size)

\* sample_size * 2 panics: the build checks overflow and the product overflows.
DoublingPanics(mode, raw_duration, precision) ==
    /\ overflow_checks
    /\ is_tune(mode)
    /\ ContinuesTuning(raw_duration, precision)
    /\ DoubleOverflows(mode.sample_size)

\* AdjustedDuration that subtracts the overhead of one iteration from a sample.
AdjustedDuration_OverheadOnce(raw_duration, bench_overhead, sample_size, precision) ==
    RoundUpZero(SaturatingSub(raw_duration, bench_overhead), precision)

\* "Account for the per-sample benchmarking overhead."
AdjustedDuration(raw_duration, bench_overhead, sample_size, precision) ==
    LET sample_overhead == bench_overhead * sample_size
    IN  RoundUpZero(SaturatingSub(raw_duration, sample_overhead), precision)

\* SampleCounterTotals that adds the counts up in a MaxCountUInt.
SampleCounterTotals_NarrowSum(cs, inputs) ==
    [k \in Kinds |->
        AsMaxCountUInt(SumSeq([j \in DOMAIN inputs |->
                                  IF get_input_count(cs, k, inputs[j]) # NONE
                                  THEN get_input_count(cs, k, inputs[j]) ELSE 0]))]

\* SampleCounterTotals that overwrites the total with each input's count.
SampleCounterTotals_Overwrite(cs, inputs) ==
    [k \in Kinds |->
        IF inputs = <<>> \/ get_input_count(cs, k, inputs[Len(inputs)]) = NONE THEN 0
        ELSE get_input_count(cs, k, inputs[Len(inputs)])]

\* count_input: the per-kind totals of one sample's inputs.
SampleCounterTotals(cs, inputs) ==
    [k \in Kinds |->
        SaturatedTotal(SumSeq([j \in DOMAIN inputs |->
                                  IF get_input_count(cs, k, inputs[j]) # NONE
                                  THEN get_input_count(cs, k, inputs[j]) ELSE 0]))]

RECURSIVE PushInputCounters(_, _, _, _)
\* "Insert per-input counter information", for the kinds from index i on.
PushInputCounters(cs, totals, sample_size, i) ==
    IF i > Len(KnownCounterKinds) THEN cs
    ELSE LET kind == KnownCounterKinds[i]
         IN  IF ~uses_input_counts(cs, kind)
             THEN PushInputCounters(cs, totals, sample_size, i + 1)
             ELSE PushInputCounters(
                      push_counter(cs, kind, AsMaxCountUInt(totals[kind] \div sample_size)),
                      totals, sample_size, i + 1)

\* total_count / sample_size panics when sample_size is 0.
DividesByZero(cs, sample_size) ==
    sample_size = 0 /\ \E k \in Kinds : uses_input_counts(cs, k)

\* ClearedSamples that keeps the samples of earlier tuning rounds.
ClearedSamples_Keep(all, tuning) == all

\* ClearedSamples that keeps the sample of the tuning round before.
ClearedSamples_KeepLatest(all, tuning) ==
    IF tuning /\ all # <<>> THEN <<all[Len(all)]>> ELSE all

\* "Clear previous smaller samples."
ClearedSamples(all, tuning) == IF tuning THEN <<>> ELSE all

\* ClearedCounters that keeps the column entries of earlier tuning rounds.
ClearedCounters_Keep(cs, tuning) == cs

\* The counter columns after the clearing done in Tune mode.
ClearedCounters(cs, tuning) == IF tuning THEN clear_input_counts(cs) ELSE cs

\* AdvanceElapsed that reads the clock even when external time is to be skipped.
AdvanceElapsed_WallClock(elapsed, start, sample_end, raw_duration) ==
    sample_end - (IF start # NONE THEN start ELSE 0)

\* AdvanceElapsed without the floor of one nanosecond.
AdvanceElapsed_NoFloor(elapsed, start, sample_end, raw_duration) ==
    IF start # NONE THEN sample_end - start
    ELSE elapsed + raw_duration

\* elapsed_picos after a sample.
AdvanceElapsed(elapsed, start, sample_end, raw_duration) ==
    IF start # NONE THEN sample_end - start
    ELSE elapsed + Max(raw_duration, MinProgressPicos)

\* One iteration of bench_loop's while loop: the sample recorder runs, then the
\* sample is accounted for.
Iterate(n, ext, measured) ==
    LET sample_start == now + ext
        inputs == [j \in 1..n |-> GenInput(gen_input, calls.gen_input + j)]
        sample_end == sample_start + measured
        events == RecordSampleEvents(types, n)
        totals == SampleCounterTotals(counters, inputs)
        raw_duration == RoundUpZero(measured, timer_precision)
        tuning == is_tune(current_mode)
        mode1 == IF tuning THEN TunedMode(current_mode, raw_duration, timer_precision)
                 ELSE current_mode
        rem1 == IF tuning /\ is_collect(mode1) THEN sample_count_or_default
                ELSE rem_samples
        all1 == ClearedSamples(samples.all, tuning)
        cs1 == ClearedCounters(counters, tuning)
        adjusted == AdjustedDuration(raw_duration, shared.bench_overhead, n,
                                     timer_precision)
        \* size is not a field of Sample: it remembers the iterations measured.
        all2 == Append(all1, [duration |-> adjusted, size |-> n])
    IN  /\ trace' = events
        /\ calls' = AddCalls(calls, events)
        /\ now' = sample_end
        /\ iters' = iters + 1
        /\ last' = [started |-> TRUE, mode |-> current_mode, sample_size |-> n,
                    elapsed |-> elapsed_picos, rem |-> rem_samples,
                    measured |-> measured]
        /\ IF is_test(current_mode)
           THEN /\ samples' = [samples EXCEPT !.sample_size = n]
                /\ pc' = "done"
                /\ UNCHANGED <<counters, current_mode, rem_samples, elapsed_picos>>
           ELSE IF DoublingPanics(current_mode, raw_duration, timer_precision)
           THEN /\ samples' = [all |-> all1, sample_size |-> n]
                /\ counters' = cs1
                /\ pc' = "panicked"
                /\ UNCHANGED <<current_mode, rem_samples, elapsed_picos>>
           ELSE IF DividesByZero(cs1, n)
           THEN /\ samples' = [all |-> all2, sample_size |-> n]
                /\ current_mode' = mode1
                /\ rem_samples' = rem1
                /\ pc' = "panicked"
                /\ UNCHANGED <<counters, elapsed_picos>>
           ELSE /\ samples' = [all |-> all2, sample_size |-> n]
                /\ counters' = PushInputCounters(cs1, totals, n, 1)
                /\ current_mode' = mode1
                /\ rem_samples' = IF rem1 # NONE THEN SaturatingSub(rem1, 1) ELSE NONE
                /\ elapsed_picos' = AdvanceElapsed(elapsed_picos, initial_start,
                                                   sample_end, raw_duration)
                /\ pc' = "loop"
        /\ UNCHANGED <<config, registry, stats, middle, did_run, timer_precision, initial_start>>

\* The loop iterations the model follows a run for: a steady benchmark is followed
\* through the default number of samples.
IterLimit ==
    CASE benched = "steady" -> DEFAULT_SAMPLE_COUNT + MaxIters
      [] benched = "instant" -> SampleSizeBits + 1
      [] OTHER -> MaxIters

\* The loop condition is true: one more sample.
SampleIteration ==
    /\ pc = "loop"
    /\ LoopCondition(elapsed_picos, rem_samples, min_time, max_time)
    /\ iters < IterLimit
    /\ LET n == mode_sample_size(current_mode)
       IN  \E ext \in External(benched, n), measured \in Measurable(benched, n) :
                Iterate(n, ext, measured)

\* The user's callbacks that run inside the sample recorder before sample_end.
FaultingOps == {"gen_input", "count_input", "benched"}

\* Unwind that leaves the interrupted sample in the collection.
Unwind_KeepsPartial(n, events, j) ==
    /\ samples' = [all |-> Append(samples.all, [duration |-> 0, size |-> events[j].i]),
                   sample_size |-> n]
    /\ calls' = AddCalls(calls, SubSeq(events, 1, j))
    /\ last' = [started |-> FALSE, fault |-> events[j].op, at |-> events[j].i,
                trace |-> SubSeq(events, 1, j)]
    /\ trace' = <<>>
    /\ iters' = iters + 1
    /\ pc' = "panicked"
    /\ UNCHANGED <<config, registry, stats, middle, did_run, counters, current_mode, rem_samples, timer_precision,
                   initial_start, elapsed_picos, now>>

\* The callback at step j of the recorder panics: record_sample does not return,
\* and the panic unwinds out of bench_loop.
Unwind(n, events, j) ==
    /\ samples' = [samples EXCEPT !.sample_size = n]
    /\ calls' = AddCalls(calls, SubSeq(events, 1, j))
    /\ last' = [started |-> FALSE, fault |-> events[j].op, at |-> events[j].i,
                trace |-> SubSeq(events, 1, j)]
    /\ trace' = <<>>
    /\ iters' = iters + 1
    /\ pc' = "panicked"
    /\ UNCHANGED <<config, registry, stats, middle, did_run, counters, current_mode, rem_samples, timer_precision,
                   initial_start, elapsed_picos, now>>

\* The loop condition is true and a callback panics during the sample, in its
\* first or in its last call.
SampleFault ==
    /\ pc = "loop"
    /\ LoopCondition(elapsed_picos, rem_samples, min_time, max_time)
    /\ iters < IterLimit
    /\ LET n == mode_sample_size(current_mode)
           events == RecordSampleEvents(types, n)
       IN  \E j \in DOMAIN events :
                /\ events[j].op \in FaultingOps
                /\ events[j].i \in {1, n}
                /\ Unwind(n, events, j)

----------------------------------------------------------------------------
(* BenchContext::compute_stats *)

\* iter_count that counts the samples.
iter_count_Samples(s) == Len(s.all)

\* SampleCollection::iter_count
iter_count(s) == Len(s.all) * s.sample_size

\* SampleCollection::total_duration
total_duration(s) == SumSeq([i \in DOMAIN s.all |-> s.all[i].duration])

\* u128::checked_div(..).unwrap_or_default()
CheckedDivOrDefault(a, b) == IF b = 0 THEN 0 ELSE a \div b

\* mean_duration per sample instead of per iteration.
mean_duration_PerSample(s) == CheckedDivOrDefault(total_duration(s), Len(s.all))

\* The mean_duration of compute_stats.
mean_duration(s) == CheckedDivOrDefault(total_duration(s), iter_count(s))

\* The orders sort_unstable_by_key may leave samples of the same duration in.
SortTies == {"in order", "reversed"}

\* The place of all[i] among the samples ordered by duration, samples of the same
\* duration in the order they were recorded or in the reverse of it.
RankByDuration(all, i) ==
    Cardinality({j \in DOMAIN all :
                    \/ all[j].duration < all[i].duration
                    \/ /\ all[j].duration = all[i].duration
                       /\ IF sort_ties = "in order" THEN j <= i ELSE j >= i})

\* SampleCollection::sorted_samples: references to the samples, by duration; a
\* reference is the position of its sample in samples.all.
sorted_samples(s) ==
    LET rank == SubSeq([i \in DOMAIN s.all |-> RankByDuration(s.all, i)], 1, Len(s.all))
    IN  SubSeq([r \in DOMAIN s.all |-> CHOOSE i \in DOMAIN s.all : rank[i] = r],
               1, Len(s.all))

\* &slice[from..], from counted from 0
SliceFrom(slice, from) == SubSeq(slice, from + 1, Len(slice))

\* &slice[..to]
SliceTo(slice, to) == SubSeq(slice, 1, to)

\* slice_middle that returns one value for every slice that is not empty.
slice_middle_OneValue(slice) ==
    LET len == Len(slice)
    IN  IF len = 0 THEN slice
        ELSE SliceTo(SliceFrom(slice, len \div 2), 1)

\* util::slice_middle
slice_middle(slice) ==
    LET len == Len(slice)
    IN  IF len = 0 THEN slice
        ELSE IF len % 2 = 0 THEN SliceTo(SliceFrom(slice, (len \div 2) - 1), 2)
        ELSE SliceTo(SliceFrom(slice, len \div 2), 1)

\* FineDuration / u32
DivDuration(picos, n) == picos \div n

min_duration(s) ==
    LET sorted == sorted_samples(s)
    IN  IF DOMAIN sorted = {} THEN ZeroDuration
        ELSE DivDuration(s.all[sorted[1]].duration, s.sample_size)

max_duration(s) ==
    LET sorted == sorted_samples(s)
    IN  IF DOMAIN sorted = {} THEN ZeroDuration
        ELSE DivDuration(s.all[sorted[Len(s.all)]].duration, s.sample_size)

\* median_duration that takes the upper one of two middle samples.
median_duration_UpperMiddle(s) ==
    LET sorted == sorted_samples(s)
    IN  IF DOMAIN sorted = {} THEN ZeroDuration
        ELSE DivDuration(s.all[sorted[(Len(s.all) \div 2) + 1]].duration, s.sample_size)

median_duration(s) ==
    LET median_samples == slice_middle(sorted_samples(s))
    IN  IF median_samples = <<>> THEN ZeroDuration
        ELSE LET sum == SumSeq([i \in DOMAIN median_samples |->
                                   s.all[median_samples[i]].duration])
             IN  DivDuration(sum \div Len(median_samples), s.sample_size)

\* The count of a kind that belongs to the sample at position i, or NONE.
counter_count_for_sample(cs, i, kind) ==
    LET counts == cs[kind].counts
        index == IF uses_input_counts(cs, kind) THEN i ELSE 1
    IN  IF index \in DOMAIN counts THEN counts[index] ELSE NONE

\* CounterCollection::mean_count
mean_count(cs, kind) ==
    LET counts == cs[kind].counts
    IN  IF counts = <<>> THEN 0
        ELSE IF uses_input_counts(cs, kind) THEN SumSeq(counts) \div Len(counts)
        ELSE counts[1]

\* Option::None of a counter kind's StatsSet.
NoStatsSet == [available |-> FALSE]

\* count_stats that takes a count that is not available as 0.
count_stats_MissingAsZero(cs, s, kind) ==
    LET sorted == sorted_samples(s)
        median_samples == slice_middle(sorted)
        count(i) == IF counter_count_for_sample(cs, i, kind) = NONE THEN 0
                    ELSE counter_count_for_sample(cs, i, kind)
    IN  [fastest |-> count(sorted[1]), slowest |-> count(sorted[Len(s.all)]),
         median |-> SumSeq([i \in DOMAIN median_samples |-> count(median_samples[i])])
                        \div Len(median_samples),
         mean |-> mean_count(cs, kind)]

\* The StatsSet of a counter kind, None when a sample has no count of that kind.
count_stats(cs, s, kind) ==
    LET sorted == sorted_samples(s)
        median_samples == slice_middle(sorted)
        medians == [i \in DOMAIN median_samples |->
                       counter_count_for_sample(cs, median_samples[i], kind)]
        fastest == counter_count_for_sample(cs, sorted[1], kind)
        slowest == counter_count_for_sample(cs, sorted[Len(s.all)], kind)
    IN  IF \E i \in DOMAIN medians : medians[i] = NONE THEN NoStatsSet
        ELSE IF fastest = NONE \/ slowest = NONE THEN NoStatsSet
        ELSE [fastest |-> fastest, slowest |-> slowest,
              median |-> SumSeq(medians) \div Len(median_samples),
              mean |-> mean_count(cs, kind)]

\* sum / median_samples.len() of the counter median divides by zero when there is
\* no sample.
CountMedianDividesByZero(s) == slice_middle(sorted_samples(s)) = <<>>

\* s.duration / sample_size divides by zero when the samples were taken with
\* sample_size 0.
DurationDividesByZero(s) == s.all # <<>> /\ s.sample_size = 0

compute_stats(s, cs) ==
    IF DurationDividesByZero(s) \/ CountMedianDividesByZero(s) THEN StatsPanic
    ELSE [called |-> TRUE, returned |-> TRUE,
          sample_count |-> Len(s.all),
          iter_count |-> iter_count(s),
          time |-> [mean |-> mean_duration(s), fastest |-> min_duration(s),
                    slowest |-> max_duration(s), median |-> median_duration(s)],
          counts |-> [kind \in Kinds |-> count_stats(cs, s, kind)]]

\* compute_stats is called, once, after the benchmark body has returned.
ComputeStats ==
    /\ pc \in {"done", "unused"}
    /\ ~stats.called
    /\ stats' = compute_stats(samples, counters)
    /\ middle' = slice_middle(sorted_samples(samples))
    /\ UNCHANGED <<config, registry, pc, did_run, samples, counters, current_mode, rem_samples,
                   timer_precision, initial_start, elapsed_picos, now, trace, last,
                   calls, iters>>

\* The durations of recorded samples.
RecordedDurations == {10, 150, 1200}

\* The columns a counter kind may hold for n samples: none, one fixed count, or a
\* count per sample; compute_stats reads a column with counts.get(index), which
\* allows for a column that ends before the last sample.
ColumnsFor(n) ==
    {AbsentCounter, FixedCounter(7)}
        \cup {[uses_input |-> TRUE, counts |-> [i \in 1..len |-> (2 * i) + 1]] :
                  len \in {n, Max(n - 1, 0)}}

\* Contexts as compute_stats may be given them: bench_loop has returned with up to
\* MaxIters samples of one sample size.
InitStats ==
    /\ options = [min_time |-> 0, max_time |-> 1000000, sample_count |-> NONE,
                  sample_size |-> NONE, skip_ext_time |-> FALSE]
    /\ shared = [action |-> "bench", bench_overhead |-> 0, precision |-> 10]
    /\ types = OwnedTypes
    /\ gen_input = "alternating"
    /\ benched = "varying"
    /\ sort_ties \in SortTies
    /\ overflow_checks = FALSE
    /\ pc = "done"
    /\ did_run = TRUE
    /\ \E n \in 0..MaxIters, size \in 1..MaxOptSampleSize :
            /\ samples \in [all : [1..n -> [duration : RecordedDurations, size : {size}]],
                             sample_size : {size}]
            /\ counters \in [Kinds -> ColumnsFor(n)]
            /\ current_mode = CollectMode(size)
            /\ iters = n
    /\ rem_samples = 0
    /\ timer_precision = 10
    /\ initial_start = NONE
    /\ elapsed_picos = 0
    /\ now = 0
    /\ trace = <<>>
    /\ last = NoIteration
    /\ calls = NoCalls
    /\ stats = NoStats
    /\ middle = <<>>
    /\ NoEntryTree

Next ==
    \/ NeverBench
    \/ BenchLoopShortCircuit
    \/ BenchLoopEnter
    \/ LoopExit
    \/ SampleIteration
    \/ SampleFault
    \/ ComputeStats

Spec == Init /\ [][Next]_vars

SpecRecorder == InitRecorder /\ [][Next]_vars

SpecSteady == InitSteady /\ [][Next]_vars

SpecTune == InitTune /\ [][Next]_vars

SpecCounts == InitCounts /\ [][Next]_vars

SpecDoubling == InitDoubling /\ [][Next]_vars

\* compute_stats as a function of the context it is given.
NextStats == ComputeStats

SpecStats == InitStats /\ [][NextStats]_vars

\* The loop body is executed: a step of SampleIteration or of SampleFault.
RunsBody ==
    /\ pc = "loop"
    /\ LoopCondition(elapsed_picos, rem_samples, min_time, max_time)
    /\ iters < IterLimit
    /\ iters' = iters + 1

\* bench_loop returns from the loop condition: a step of LoopExit.
Returns ==
    /\ pc = "loop"
    /\ ~LoopCondition(elapsed_picos, rem_samples, min_time, max_time)
    /\ pc' = "done"

\* bench_loop is not suspended for ever: the loop body is executed while the loop
\* condition holds, and the function returns when it does not.
SpecLive ==
    /\ InitLive
    /\ [][Next]_vars
    /\ WF_iters(RunsBody)
    /\ WF_pc(Returns)

----------------------------------------------------------------------------
(* EntryTree: the benchmark entries organised by path components. *)

\* Strings are sequences of characters.  The path separator of full paths:
PathSeparator == <<":", ":">>

\* The names of modules: a plain identifier and a raw identifier.
ModuleNames == {<<"a">>, <<"r", "#", "b">>}

\* What module_path_components, or path_components, yields for an entry: the crate
\* and the modules under it.
ModulePaths ==
    { <<m>> : m \in ModuleNames } \cup { <<<<"a">>, m>> : m \in ModuleNames }

\* The names of benchmark entries: a function f, and a function r#b.
BenchNames ==
    { [raw_name |-> <<"f">>, display_name |-> <<"f">>],
      [raw_name |-> <<"r", "#", "b">>, display_name |-> <<"b">>] }

\* The AnyBenchEntry values: addr is the identity of the entry (entry_addr).
BenchEntries(addr) ==
    { [addr |-> addr, path |-> path, raw_name |-> name.raw_name,
       display_name |-> name.display_name] : path \in ModulePaths, name \in BenchNames }

\* The sequences of entries from_benches may be given.
BenchSequences ==
    UNION { { entries \in [1..n -> UNION { BenchEntries(k) : k \in 1..n }] :
                \A k \in 1..n : entries[k].addr = k } : n \in 0..MaxBenches }

\* The GroupEntry values: a group named as the module a::r#b, with a display name
\* of its own, a group named as the module a::a, with the empty string for its
\* display name, and a group no module is named as.
GroupEntries ==
    { [path |-> <<<<"a">>>>, raw_name |-> <<"r", "#", "b">>, display_name |-> <<"B">>],
      [path |-> <<<<"a">>>>, raw_name |-> <<"a">>, display_name |-> <<>>],
      [path |-> <<<<"r", "#", "b">>>>, raw_name |-> <<"c">>, display_name |-> <<"c">>] }

\* Option<&GroupEntry>.
NoGroup == [present |-> FALSE]

SomeGroup(group) == [present |-> TRUE, entry |-> group]

\* EntryTree::Leaf.
Leaf(entry) == [kind |-> "Leaf", entry |-> entry]

\* EntryTree::Parent.
Parent(name, slot, subtrees) ==
    [kind |-> "Parent", raw_name |-> name, group |-> slot, children |-> subtrees]

\* FirstParent that finds no Parent.
FirstParent_None(tree_0, module) == 0

\* The position in tree of the first Parent whose raw_name field is module, 0 if
\* there is none: the search of get_children and of insert_group.
FirstParent(tree_0, module) ==
    LET found == { i \in DOMAIN tree_0 :
                        tree_0[i].kind = "Parent" /\ tree_0[i].raw_name = module }
    IN  IF found = {} THEN 0 ELSE CHOOSE i \in found : \A j \in found : i <= j

\* EntryTree::from_path, with current_module the head of modules.
RECURSIVE from_path(_, _)
from_path(entry, modules) ==
    LET child == IF Tail(modules) # <<>> THEN from_path(entry, Tail(modules))
                 ELSE Leaf(entry)
    IN  Parent(Head(modules), NoGroup, <<child>>)

\* EntryTree::insert_entry.
RECURSIVE insert_entry(_, _, _)
insert_entry(tree_0, entry, rem_modules) ==
    IF rem_modules # <<>>
    THEN LET current_module == Head(rem_modules)
             at == FirstParent(tree_0, current_module)
         IN  IF at # 0
             THEN [tree_0 EXCEPT
                      ![at].children = insert_entry(@, entry, Tail(rem_modules))]
             ELSE Append(tree_0, from_path(entry, rem_modules))
    ELSE Append(tree_0, Leaf(entry))

\* insert_group that adds a Parent for a group that matches none.
RECURSIVE insert_group_AddsParent(_, _, _)
insert_group_AddsParent(tree_0, group, components) ==
    IF components # <<>>
    THEN LET at == FirstParent(tree_0, Head(components))
         IN  IF at = 0 THEN tree_0
             ELSE [tree_0 EXCEPT
                      ![at].children = insert_group_AddsParent(@, group, Tail(components))]
    ELSE LET at == FirstParent(tree_0, group.raw_name)
         IN  IF at = 0 THEN Append(tree_0, Parent(group.raw_name, SomeGroup(group), <<>>))
             ELSE [tree_0 EXCEPT ![at].group = SomeGroup(group)]

\* EntryTree::insert_group, with components what is left of the group's module path.
RECURSIVE insert_group(_, _, _)
insert_group(tree_0, group, components) ==
    IF components # <<>>
    THEN LET at == FirstParent(tree_0, Head(components))
         IN  IF at = 0 THEN tree_0
             ELSE [tree_0 EXCEPT
                      ![at].children = insert_group(@, group, Tail(components))]
    ELSE LET at == FirstParent(tree_0, group.raw_name)
         IN  IF at = 0 THEN tree_0
             ELSE [tree_0 EXCEPT ![at].group = SomeGroup(group)]

\* EntryTree::raw_name.
raw_name(subtree) ==
    IF subtree.kind = "Leaf" THEN subtree.entry.raw_name
    ELSE IF subtree.group.present THEN subtree.group.entry.raw_name
    ELSE subtree.raw_name

\* str::strip_prefix("r#"), the name itself when it has no such prefix.
StripRawPrefix(name) ==
    IF Len(name) >= 2 /\ SubSeq(name, 1, 2) = <<"r", "#">>
    THEN SubSeq(name, 3, Len(name))
    ELSE name

\* EntryTree::display_name.
display_name(subtree) ==
    IF subtree.kind = "Leaf" THEN subtree.entry.display_name
    ELSE IF subtree.group.present THEN subtree.group.entry.display_name
    ELSE StripRawPrefix(raw_name(subtree))

\* The full_path of retain's closure.
full_path(parent_path, subtree) ==
    IF parent_path = <<>> THEN display_name(subtree)
    ELSE parent_path \o PathSeparator \o display_name(subtree)

\* Vec::retain_mut: the elements that are kept, in their order.
RECURSIVE Retained(_, _)
Retained(subtrees, keep) ==
    IF subtrees = <<>> THEN <<>>
    ELSE (IF keep[1] THEN <<Head(subtrees)>> ELSE <<>>)
            \o Retained(Tail(subtrees), Tail(keep))

\* retain that keeps every Parent.
RECURSIVE retain_KeepParents(_, _, _)
retain_KeepParents(tree_0, parent_path, filter) ==
    LET visited == [i \in DOMAIN tree_0 |->
                        IF tree_0[i].kind = "Parent"
                        THEN [tree_0[i] EXCEPT !.children =
                                retain_KeepParents(@, full_path(parent_path, tree_0[i]), filter)]
                        ELSE tree_0[i]]
        keep == [i \in DOMAIN tree_0 |->
                    IF tree_0[i].kind = "Parent" THEN TRUE
                    ELSE full_path(parent_path, tree_0[i]) \in filter]
    IN  Retained(visited, keep)

\* The inner retain of EntryTree::retain; filter is the set of the paths the filter
\* accepts.
RECURSIVE retain(_, _, _)
retain(tree_0, parent_path, filter) ==
    LET visited == [i \in DOMAIN tree_0 |->
                        IF tree_0[i].kind = "Parent"
                        THEN [tree_0[i] EXCEPT !.children =
                                retain(@, full_path(parent_path, tree_0[i]), filter)]
                        ELSE tree_0[i]]
        keep == [i \in DOMAIN tree_0 |->
                    IF tree_0[i].kind = "Parent" THEN visited[i].children # <<>>
                    ELSE full_path(parent_path, tree_0[i]) \in filter]
    IN  Retained(visited, keep)

\* The paths retain's filter is asked about: the full path of every leaf.
RECURSIVE AskedPaths(_, _)
AskedPaths(tree_0, parent_path) ==
    UNION { IF tree_0[i].kind = "Parent"
            THEN AskedPaths(tree_0[i].children, full_path(parent_path, tree_0[i]))
            ELSE {full_path(parent_path, tree_0[i])} : i \in DOMAIN tree_0 }

\* The filters: the paths of the tree's leaves a filter accepts.
Filters == SUBSET AskedPaths(tree, <<>>)

\* from_benches has not returned, or it has and its result was not touched.
Building == tree_op.op \in {"none", "insert_entry"}

\* from_benches has returned.
Built == built = Len(benches)

\* One turn of the loop of from_benches: the next entry is inserted.
InsertEntry ==
    /\ Building
    /\ ~Built
    /\ LET bench == benches[built + 1]
       IN  /\ tree' = insert_entry(tree, bench, bench.path)
           /\ tree_op' = [op |-> "insert_entry", entry |-> bench]
    /\ built' = built + 1
    /\ tree_was' = tree
    /\ UNCHANGED <<context, benches>>

\* EntryTree::insert_group on the tree from_benches returned.
InsertGroup ==
    /\ Building
    /\ Built
    /\ \E group \in GroupEntries :
            /\ tree' = insert_group(tree, group, group.path)
            /\ tree_op' = [op |-> "insert_group", group |-> group]
    /\ tree_was' = tree
    /\ UNCHANGED <<context, benches, built>>

\* EntryTree::retain on the tree, with or without a group.
Retain ==
    /\ Built
    /\ tree_op.op # "retain"
    /\ \E filter \in Filters :
            /\ tree' = retain(tree, <<>>, filter)
            /\ tree_op' = [op |-> "retain", filter |-> filter]
    /\ tree_was' = tree
    /\ UNCHANGED <<context, benches, built>>

\* The entries are registered and no benchmark context exists yet.
InitTree ==
    /\ options = [min_time |-> NONE, max_time |-> NONE, sample_count |-> NONE,
                  sample_size |-> NONE, skip_ext_time |-> FALSE]
    /\ shared = [action |-> "bench", bench_overhead |-> 0, precision |-> 10]
    /\ types = UnitTypes
    /\ counters = NoCounters
    /\ gen_input = "same"
    /\ benched = "varying"
    /\ sort_ties = "in order"
    /\ overflow_checks = FALSE
    /\ pc = "new"
    /\ did_run = FALSE
    /\ samples = [all |-> <<>>, sample_size |-> 0]
    /\ current_mode = TestMode
    /\ rem_samples = NONE
    /\ timer_precision = ZeroDuration
    /\ initial_start = NONE
    /\ elapsed_picos = 0
    /\ now = 0
    /\ trace = <<>>
    /\ last = NoIteration
    /\ calls = NoCalls
    /\ iters = 0
    /\ stats = NoStats
    /\ middle = <<>>
    /\ benches \in BenchSequences
    /\ built = 0
    /\ tree = <<>>
    /\ tree_was = <<>>
    /\ tree_op = NoTreeOp

NextTree ==
    \/ InsertEntry
    \/ InsertGroup
    \/ Retain

SpecTree == InitTree /\ [][NextTree]_vars

----------------------------------------------------------------------------
(* Properties. *)

\* The options ask for no time or for no samples.
ZeroBudget == options.max_time = 0 \/ options.sample_count = 0

\* bench_loop started in Tune mode, so that the timer's precision was measured.
StartedInTune == shared.action = "bench" /\ options.sample_size = NONE

Durations == {samples.all[i].duration : i \in DOMAIN samples.all}

InputColumnsEmpty ==
    \A k \in Kinds : counters[k].uses_input => counters[k].counts = <<>>

\* The latest loop iteration pushed a Sample.
PushedSample == last.started /\ ~is_test(last.mode) /\ samples.all # <<>>

LatestDuration == samples.all[Len(samples.all)].duration

\* C1, as claimed: every Sample appended by bench_loop has duration.picos >= the
\* clock's precision, in every mode and for every bench_overhead.
C1_EverySampleAtLeastPrecision ==
    \A d \in Durations : d >= shared.precision

\* C1, amended: when bench_loop started in Tune mode (Tune, and Collect reached by
\* tuning) every Sample appended has a nonzero duration, and a raw duration of zero
\* is recorded as the clock's precision when bench_overhead is zero.  (What is left
\* after subtracting the overhead may be shorter than the precision, and in Collect
\* entered from a fixed sample_size the floor is zero.)
C1_TunedSamplesNonzero ==
    StartedInTune =>
        /\ \A d \in Durations : d > 0
        /\ (PushedSample /\ last.measured = 0 /\ shared.bench_overhead = 0)
           => LatestDuration = shared.precision

\* A zero raw duration was measured in Collect mode reached by tuning, and floored.
C1_Witness ==
    /\ StartedInTune
    /\ PushedSample
    /\ is_collect(last.mode)
    /\ last.measured = 0
    /\ shared.bench_overhead = 0
    /\ LatestDuration = shared.precision

\* C2, as claimed: bench_loop with max_time = 0 or sample_count = 0 leaves
\* did_run false.
C2_ZeroBudgetLeavesDidRunFalse ==
    (pc = "done" /\ ZeroBudget) => did_run = FALSE

\* C2, amended: bench_loop with max_time = 0 or sample_count = 0 records no sample
\* and leaves did_run true, since did_run is set on entry.
C2_ZeroBudgetSetsDidRun ==
    (pc = "done" /\ ZeroBudget) => (did_run = TRUE /\ samples.all = <<>>)

C2_Witness ==
    pc = "done" /\ options.sample_count = 0 /\ options.max_time > 0 /\ did_run

\* C3: with max_time = 0 or sample_count = 0 bench_loop returns at once, in Bench
\* and in Test action: no callback has run, no sample was recorded by the recorder,
\* and the sample collection and the per-input counter columns are empty.
C3_ZeroBudgetRunsNothing ==
    ZeroBudget =>
        /\ pc \in {"new", "unused", "done"}
        /\ calls = NoCalls
        /\ trace = <<>>
        /\ iters = 0
        /\ samples.all = <<>>
        /\ InputColumnsEmpty

C3_Witness ==
    /\ pc = "done"
    /\ ZeroBudget
    /\ shared.action = "test"
    /\ options.min_time > 0
    /\ \E k \in Kinds : counters[k].uses_input

\* C4: did_run is false on a new BenchContext, true from the entry of bench_loop
\* on, and hence false for a body that never calls a bench variant.
C4_DidRunIffBenchLoopEntered ==
    did_run = (pc \in {"loop", "done", "panicked"})

C4_Witness ==
    pc = "unused" /\ ~did_run

Pos(op) == {j \in DOMAIN trace : trace[j].op = op}

\* C6: in every sample, whatever the strategy, every gen_input call and every
\* per-input tally comes before sample_start, every output drop and every
\* drop_input call after sample_end, and between the two timestamps there are only
\* calls of benched and stores of outputs.
C6_OnlyBenchedIsTimed ==
    trace # <<>> =>
        /\ Cardinality(Pos("sample_start")) = 1
        /\ Cardinality(Pos("sample_end")) = 1
        /\ LET s == CHOOSE j \in Pos("sample_start") : TRUE
               e == CHOOSE j \in Pos("sample_end") : TRUE
           IN  /\ s < e
               /\ \A j \in Pos("gen_input") \cup Pos("count_input") : j < s
               /\ \A j \in Pos("drop_output") \cup Pos("drop_input") : j > e
               /\ \A j \in Pos("benched") \cup Pos("store_output") : s < j /\ j < e
               /\ \A j \in DOMAIN trace :
                     (s < j /\ j < e) => trace[j].op \in {"benched", "store_output"}

C6_Witness ==
    /\ last.started
    /\ last.sample_size >= 2
    /\ ~UsesCountedLoop(types)
    /\ Cardinality(Pos("gen_input")) >= 2
    /\ Cardinality(Pos("drop_output")) >= 2
    /\ Cardinality(Pos("drop_input")) >= 2

At(op, k) == {j \in DOMAIN trace : trace[j] = Ev(op, k)}

\* C7: in a sample of size N, whatever the strategy, gen_input is called exactly N
\* times and benched exactly N times, once for each generated input and after it
\* was generated; every drop_input call follows the benched call of its input.
C7_OneBenchedPerInput ==
    last.started =>
        LET n == last.sample_size
        IN  /\ Cardinality(Pos("gen_input")) = n
            /\ Cardinality(Pos("benched")) = n
            /\ \A k \in 1..n :
                  /\ Cardinality(At("gen_input", k)) = 1
                  /\ Cardinality(At("benched", k)) = 1
                  /\ \A g \in At("gen_input", k), b \in At("benched", k) : g < b
            /\ \A j \in Pos("drop_input") :
                  \E b \in At("benched", trace[j].i) : b < j

C7_Witness ==
    /\ last.started
    /\ last.sample_size >= 2
    /\ UsesCountedLoop(types)
    /\ Cardinality(Pos("drop_input")) = last.sample_size

\* C8, as claimed: whenever drop_input is called, every output that benched
\* returned in that sample has already been dropped.
C8_AllOutputsDroppedBeforeAnyInput ==
    types.o_drop =>
        \A j \in Pos("drop_input") :
            \A b \in Pos("benched") :
                \E d \in At("drop_output", trace[b].i) : d < j

\* C9: drop_input is called on a slot's input only after the output produced from
\* that input has been dropped.
C9_OwnOutputDroppedBeforeInput ==
    types.o_drop =>
        \A j \in Pos("drop_input") :
            \E d \in At("drop_output", trace[j].i) : d < j

C9_Witness ==
    /\ types.o_drop
    /\ ~UsesCountedLoop(types)
    /\ last.started
    /\ last.sample_size >= 2
    /\ Cardinality(Pos("drop_input")) = last.sample_size

\* The condition under which C10 says another sample starts.
ContinueSampling ==
    /\ elapsed_picos < options.max_time
    /\ \/ rem_samples = NONE
       \/ rem_samples > 0
       \/ elapsed_picos < options.min_time

\* C10: bench_loop starts another sample only if elapsed_picos < max_time and
\* (remaining_samples > 0, or is not initialised yet, or elapsed_picos < min_time),
\* and returns from the loop condition only if that does not hold.
C10_SampleStartsIffBudgetAllows ==
    [][/\ (pc = "loop" /\ iters' = iters + 1) => ContinueSampling
       /\ (pc = "loop" /\ iters' = iters /\ pc' = "done") => ~ContinueSampling]_vars

\* A sample started beyond sample_count because min_time was not reached.
C10_Witness ==
    /\ last.started
    /\ last.rem = 0
    /\ last.elapsed > 0
    /\ last.elapsed < options.min_time
    /\ last.elapsed < options.max_time

\* bench_loop returned before the max_time budget was used up.
ReturnedWithinBudget == pc = "done" /\ elapsed_picos < options.max_time

\* C11: when min_time is 0 and the max_time budget is not reached, a bench_loop
\* that is not in Test mode returns with exactly sample_count samples, 100 when
\* sample_count is absent, whether sample_size was given or found by tuning.
C11_ReturnsWithSampleCountSamples ==
    (ReturnedWithinBudget /\ shared.action = "bench" /\ options.min_time = 0)
        => Len(samples.all) = (IF options.sample_count = NONE THEN 100
                               ELSE options.sample_count)

\* A tuned run without a sample count has returned with its 100 samples.
C11_Witness ==
    /\ ReturnedWithinBudget
    /\ shared.action = "bench"
    /\ options.min_time = 0
    /\ options.sample_count = NONE
    /\ options.sample_size = NONE
    /\ samples.sample_size > 1
    /\ Len(samples.all) = 100

\* A run with a given sample size and sample count has returned.
C11_WitnessFixed ==
    /\ ReturnedWithinBudget
    /\ shared.action = "bench"
    /\ options.min_time = 0
    /\ options.sample_count = MaxOptSampleCount
    /\ options.sample_size = MaxOptSampleSize
    /\ Len(samples.all) = MaxOptSampleCount

\* bench_loop is between two loop iterations, or has returned.
Observable == pc \in {"loop", "done"}

\* C12: between loop iterations of bench_loop and at its return, the column of
\* every counter kind that uses per-input counts is as long as the sample
\* collection.
C12_InputColumnsMatchSamples ==
    Observable =>
        \A k \in Kinds :
            counters[k].uses_input => Len(counters[k].counts) = Len(samples.all)

\* Tuning took more than one round, and two samples were collected after it.
C12_Witness ==
    /\ Observable
    /\ is_collect(current_mode)
    /\ options.sample_size = NONE
    /\ counters["Bytes"].uses_input
    /\ Len(counters["Bytes"].counts) = 2
    /\ Len(samples.all) = 2
    /\ iters = 3

\* C13: at return from bench_loop every sample of the collection was measured
\* over exactly samples.sample_size iterations; the samples that tuning took at
\* other sample sizes are gone, and after the change from Tune to Collect only
\* samples of the Collect sample size are left.
C13_SamplesShareSampleSize ==
    pc = "done" =>
        /\ \A i \in DOMAIN samples.all : samples.all[i].size = samples.sample_size
        /\ is_collect(current_mode) =>
                \A i \in DOMAIN samples.all :
                    samples.all[i].size = current_mode.sample_size

\* bench_loop returned from Collect mode after tuning at sample sizes 1 and 2.
C13_Witness ==
    /\ pc = "done"
    /\ is_collect(current_mode)
    /\ options.sample_size = NONE
    /\ samples.sample_size = 2
    /\ Len(samples.all) = 2
    /\ iters = 3

\* A callback of the user panicked in the latest loop iteration.
Faulted == pc = "panicked" /\ ~last.started

Columns(cs) == [k \in Kinds |-> cs[k].counts]

\* C14: when gen_input, benched or a counter callback panics during a sample,
\* bench_loop does not return, and no Sample and no counter entry is appended for
\* that sample: the sample list and the counter columns are as they were when the
\* sample began.
C14_FaultAppendsNothing ==
    [][(pc = "loop" /\ iters' = iters + 1 /\ ~last'.started) =>
            /\ pc' = "panicked"
            /\ last'.fault \in FaultingOps
            /\ samples'.all = samples.all
            /\ Columns(counters') = Columns(counters)]_vars

\* benched panicked in the second call of a sample, after samples with counter
\* entries had been collected.
C14_Witness ==
    /\ Faulted
    /\ last.fault = "benched"
    /\ last.at = 2
    /\ Len(samples.all) = 2
    /\ Len(counters["Bytes"].counts) = 2
    /\ calls.benched = 6
    /\ calls.drop_input = 4

\* A step of bench_loop that recorded a sample and went back to the loop condition.
RecordedSample == pc = "loop" /\ pc' = "loop" /\ iters' = iters + 1

\* The raw duration of the latest sample, as bench_loop sees it.
LatestRawDuration == IF last.measured = 0 THEN timer_precision ELSE last.measured

\* C15: with skip_ext_time, elapsed_picos after a sample is its value before the
\* sample plus max(raw_duration, 1000 ps): it is a function of the raw durations
\* alone, whatever time passes outside the timed part of the samples.
C15_ElapsedSkipsExternalTime ==
    [][(options.skip_ext_time /\ RecordedSample) =>
            elapsed_picos' = elapsed_picos
                + (IF LatestRawDuration' > 1000 THEN LatestRawDuration' ELSE 1000)]_vars

\* Two samples of 150 ps and 1200 ps with 700 ps of input generation before each.
C15_Witness ==
    /\ options.skip_ext_time
    /\ pc = "loop"
    /\ last.started
    /\ last.measured = 1200
    /\ elapsed_picos = 2200
    /\ now = 2750

CeilDiv(a, b) == (a + b - 1) \div b

\* The loop iterations the model still follows this run for.
Horizon == IterLimit - iters

\* The samples after which max_time is used up when each adds 1000 ps.
SamplesToMaxTime ==
    CeilDiv(SaturatingSub(options.max_time, elapsed_picos), 1000)

\* The samples after which a Collect run has its sample count and its min_time
\* when each sample adds 1000 ps.
SamplesToMinTime ==
    Max(rem_samples, CeilDiv(SaturatingSub(options.min_time, elapsed_picos), 1000))

\* The end of the loop is within the iterations the model follows: max_time is,
\* or the run is in Collect mode and its sample count and min_time are.
WithinReach ==
    \/ SamplesToMaxTime <= Horizon
    \/ is_collect(current_mode) /\ SamplesToMinTime <= Horizon

\* C16: with skip_ext_time, every recorded sample adds at least 1000 ps to
\* elapsed_picos, so that, as long as no callback panics, bench_loop comes to its
\* end once max_time is within reach, and in Collect mode once the sample count
\* and min_time are within reach, even when every sample measures as zero.
C16_SkipExtTimeTerminates ==
    /\ [][(options.skip_ext_time /\ RecordedSample) =>
              elapsed_picos' >= elapsed_picos + 1000]_vars
    /\ (pc = "loop" /\ options.skip_ext_time /\ WithinReach) ~> (pc # "loop")

\* bench_loop returned after samples that all measured as zero: a Collect run
\* held back by min_time only.
C16_Witness ==
    /\ pc = "done"
    /\ options.skip_ext_time
    /\ options.sample_size # NONE
    /\ options.sample_count = 1
    /\ Len(samples.all) = 2
    /\ \A d \in Durations : d = 0
    /\ elapsed_picos = 2000
    /\ elapsed_picos < options.max_time

\* The latest loop iteration pushed a Sample and its counter entries.
CountedSample == Observable /\ last.started /\ ~is_test(last.mode)

\* The inputs gen_input returned in the latest sample, in order.
LatestInputs ==
    [j \in 1..last.sample_size |->
        GenInput(gen_input, calls.gen_input - last.sample_size + j)]

\* What the user's counter of a kind returns for an input: the length of the
\* buffer in bytes, or one item.
UserCount(kind, input) == IF kind = "Bytes" THEN input ELSE 1

\* C17: for each per-input counter kind, the entry pushed for a sample of size N
\* is floor((sum of the counter function over the N inputs generated for that
\* sample) / N), each generated input being tallied exactly once; when every input
\* has count c, every entry of the column is c.
C17_EntryIsMeanInputCount ==
    CountedSample =>
        LET n == last.sample_size
        IN  /\ \A k \in 1..n : Cardinality(At("count_input", k)) = 1
            /\ Cardinality(Pos("count_input")) = n
            /\ \A kind \in Kinds :
                  counters[kind].uses_input =>
                      LET column == counters[kind].counts
                          sum == SumSeq([j \in 1..n |-> UserCount(kind, LatestInputs[j])])
                      IN  /\ column[Len(column)] = sum \div n
                          /\ kind = "Items" => \A i \in DOMAIN column : column[i] = 1

\* A sample over buffers of 2 and 5 bytes: the entry is floor(7 / 2).
C17_Witness ==
    /\ CountedSample
    /\ last.sample_size = 2
    /\ LatestInputs = <<2, 5>>
    /\ counters["Bytes"].counts = <<3, 3>>
    /\ counters["Items"].counts = <<1, 1>>

\* bench_loop was entered and has not recorded a sample yet.
JustEntered == pc \in {"loop", "done"} /\ iters = 0

\* C18: the initial mode of bench_loop is Test whenever the shared action is test,
\* even if sample_size is set; otherwise Collect with the sample_size of the
\* options when it is set, and then no sample is ever taken in Tune mode;
\* otherwise Tune with sample_size 1.
C18_InitialMode ==
    /\ JustEntered =>
          CASE shared.action = "test" ->
                    current_mode.kind = "Test"
            [] shared.action # "test" /\ options.sample_size # NONE ->
                    /\ current_mode.kind = "Collect"
                    /\ current_mode.sample_size = options.sample_size
            [] OTHER ->
                    /\ current_mode.kind = "Tune"
                    /\ current_mode.sample_size = 1
    /\ (options.sample_size # NONE /\ last.started) => last.mode.kind # "Tune"

\* A test run with sample_size set took its one sample in Test mode.
C18_Witness ==
    /\ shared.action = "test"
    /\ options.sample_size = MaxOptSampleSize
    /\ pc = "done"
    /\ last.started
    /\ last.mode.kind = "Test"
    /\ last.sample_size = 1

\* The sum of the durations of all samples.
SumOfDurations == SumSeq([i \in DOMAIN samples.all |-> samples.all[i].duration])

\* The iterations of all samples.
IterationsOfSamples == Len(samples.all) * samples.sample_size

\* C19, as claimed: compute_stats reports mean time = (sum of all sample
\* durations) / iter_count in integer picoseconds, and zero when iter_count is 0.
C19_MeanTimeReported ==
    stats.called =>
        /\ stats.returned
        /\ stats.iter_count = IterationsOfSamples
        /\ stats.time.mean = (IF IterationsOfSamples = 0 THEN 0
                              ELSE SumOfDurations \div IterationsOfSamples)

\* C19, for the calls that return: the mean time reported is (sum of all sample
\* durations) / iter_count in integer picoseconds.
C19_MeanTimeWhenReturned ==
    (stats.called /\ stats.returned) =>
        /\ stats.iter_count = IterationsOfSamples
        /\ IterationsOfSamples > 0
        /\ stats.time.mean = SumOfDurations \div IterationsOfSamples

\* The k-th smallest of the samples' durations.
KthDuration(k) ==
    CHOOSE d \in Durations :
        /\ Cardinality({i \in DOMAIN samples.all : samples.all[i].duration < d}) < k
        /\ Cardinality({i \in DOMAIN samples.all : samples.all[i].duration <= d}) >= k

\* The single centre element of the sorted durations, or the integer average of
\* the two centre elements.
MiddleDuration ==
    LET n == Len(samples.all)
    IN  IF n % 2 = 1 THEN KthDuration((n + 1) \div 2)
        ELSE (KthDuration(n \div 2) + KthDuration((n \div 2) + 1)) \div 2

\* C20: compute_stats reports fastest = (smallest sample duration) / sample_size,
\* slowest = (largest sample duration) / sample_size, and median =
\* middle(sorted durations) / sample_size, middle being the centre element for an
\* odd number of samples and the integer average of the two centre elements for an
\* even number.
C20_FastestSlowestMedian ==
    (stats.called /\ stats.returned) =>
        /\ \E d \in Durations :
              /\ \A e \in Durations : d <= e
              /\ stats.time.fastest = d \div samples.sample_size
        /\ \E d \in Durations :
              /\ \A e \in Durations : d >= e
              /\ stats.time.slowest = d \div samples.sample_size
        /\ stats.time.median = MiddleDuration \div samples.sample_size

\* Statistics of two samples of different durations, of two iterations each.
C20_Witness ==
    /\ stats.called
    /\ stats.returned
    /\ Len(samples.all) = 2
    /\ samples.sample_size = 2
    /\ stats.time.fastest < stats.time.median
    /\ stats.time.median < stats.time.slowest
    /\ samples.all[1].duration > samples.all[2].duration

\* Statistics of three samples, the slowest one recorded second.
C20_WitnessOdd ==
    /\ stats.called
    /\ stats.returned
    /\ Len(samples.all) = 3
    /\ samples.all[1].duration < samples.all[3].duration
    /\ samples.all[3].duration < samples.all[2].duration
    /\ stats.time.median = samples.all[3].duration \div samples.sample_size

\* C21, as claimed: for every sample collection the time statistics returned by
\* compute_stats satisfy fastest <= median <= slowest, and all three are zero
\* when there are no samples.
C21_TimesOrdered ==
    stats.called =>
        /\ stats.returned
        /\ stats.time.fastest <= stats.time.median
        /\ stats.time.median <= stats.time.slowest
        /\ samples.all = <<>> =>
              /\ stats.time.fastest = 0
              /\ stats.time.median = 0
              /\ stats.time.slowest = 0

\* C21, for the calls that return: fastest <= median <= slowest.
C21_TimesOrderedWhenReturned ==
    (stats.called /\ stats.returned) =>
        /\ samples.all # <<>>
        /\ stats.time.fastest <= stats.time.median
        /\ stats.time.median <= stats.time.slowest

\* C22: slice_middle(xs) returns the empty slice for empty xs, [xs[n/2]] for odd
\* length n, and [xs[n/2-1], xs[n/2]] for even length n > 0, positions counted
\* from 0; here xs is the slice compute_stats passes, the samples sorted by
\* duration, and positions are counted from 1.
C22_SliceMiddle ==
    stats.called =>
        LET xs == sorted_samples(samples)
            n == Len(xs)
        IN  /\ n = 0 => middle = <<>>
            /\ n % 2 = 1 => middle = <<xs[(n \div 2) + 1]>>
            /\ (n > 0 /\ n % 2 = 0) => middle = <<xs[n \div 2], xs[(n \div 2) + 1]>>

\* The middle of two samples, the second one the faster.
C22_Witness ==
    /\ stats.called
    /\ Len(samples.all) = 2
    /\ middle = <<2, 1>>

\* The middle of three samples in an order that is not the order of recording.
C22_WitnessOdd ==
    /\ stats.called
    /\ Len(samples.all) = 3
    /\ middle = <<1>>

\* The middle of no samples.
C22_WitnessEmpty ==
    /\ stats.called
    /\ samples.all = <<>>
    /\ middle = <<>>

\* The iterations measured in the recorded samples.
MeasuredIterations == SumSeq([i \in DOMAIN samples.all |-> samples.all[i].size])

\* C23: the iteration count reported in Stats equals (number of recorded samples)
\* * (sample size), which is the number of iterations measured in those samples.
C23_IterCountIsSamplesTimesSize ==
    (stats.called /\ stats.returned) =>
        /\ stats.sample_count = Len(samples.all)
        /\ stats.iter_count = stats.sample_count * samples.sample_size
        /\ stats.iter_count = MeasuredIterations

\* Statistics of two samples of two iterations each.
C23_Witness ==
    /\ stats.called
    /\ stats.returned
    /\ stats.sample_count = 2
    /\ samples.sample_size = 2
    /\ stats.iter_count = 4

\* Statistics of one sample of four iterations, the size tuning arrived at.
C23_WitnessTuned ==
    /\ stats.called
    /\ stats.returned
    /\ options.sample_size = NONE
    /\ stats.sample_count = 1
    /\ stats.iter_count = 4

\* The samples compute_stats looks a count up for: the fastest, the slowest and
\* the median ones.
LookedUp ==
    LET sorted == sorted_samples(samples)
    IN  {sorted[1], sorted[Len(sorted)]} \cup {middle[i] : i \in DOMAIN middle}

\* The counter kind has no count for one of those samples.
Unavailable(kind) ==
    \E i \in LookedUp : counter_count_for_sample(counters, i, kind) = NONE

\* What compute_stats returns when the counter kind was never configured.
WithoutKind(kind) == compute_stats(samples, [counters EXCEPT ![kind] = AbsentCounter])

\* C24: when a counter kind has no count available for the fastest, slowest or a
\* median sample, that kind's StatsSet is absent, and the StatsSets of the other
\* kinds and the time statistics are the same as if that kind had never been
\* configured.
C24_MissingCountOmitsKindOnly ==
    (stats.called /\ stats.returned) =>
        \A kind \in Kinds :
            Unavailable(kind) =>
                /\ stats.counts[kind] = NoStatsSet
                /\ stats.time = WithoutKind(kind).time
                /\ \A other \in Kinds \ {kind} :
                      stats.counts[other] = WithoutKind(kind).counts[other]

\* Bytes has no count for the slowest of three samples, the one recorded last,
\* while Items has a count for every sample.
C24_Witness ==
    /\ stats.called
    /\ stats.returned
    /\ Len(samples.all) = 3
    /\ counters["Bytes"].uses_input
    /\ Len(counters["Bytes"].counts) = 2
    /\ counters["Items"].counts = <<3, 5, 7>>
    /\ stats.counts["Bytes"] = NoStatsSet
    /\ stats.counts["Items"] = [fastest |-> 3, slowest |-> 7, median |-> 5, mean |-> 5]

\* The latest loop iteration measured a sample in Tune mode.
TunedSample == last.started /\ is_tune(last.mode)

\* The mode and the remaining samples after a sample measured in Tune mode: the
\* sample that ends tuning is the first of the sample_count samples.
TuneStep(stay) ==
    IF stay
    THEN /\ current_mode = TuneMode(last.sample_size * 2)
         /\ rem_samples = NONE
    ELSE /\ current_mode = CollectMode(last.sample_size)
         /\ rem_samples = SaturatingSub(sample_count_or_default, 1)

\* C25, as claimed: in Tune mode, after a sample whose raw_duration (zero replaced
\* by the precision) was measured, the driver doubles sample_size and stays in
\* Tune exactly when raw_duration <= 100 * precision, and otherwise switches to
\* Collect keeping the current sample_size and setting remaining_samples to
\* sample_count (default 100).
C25_TunesWithinHundredPrecisions ==
    TunedSample =>
        TuneStep(LatestRawDuration <= 100 * timer_precision)

\* C25, as the code decides: the driver stays in Tune exactly when raw_duration
\* is less than 101 times the precision (raw_duration / precision <= 100 in
\* integer division).
C25_TunesBelowHundredAndOnePrecisions ==
    TunedSample =>
        TuneStep(LatestRawDuration < 101 * timer_precision)

\* What is left of the latest raw duration after the overhead of its iterations.
LatestWithoutOverhead ==
    SaturatingSub(LatestRawDuration, shared.bench_overhead * last.sample_size)

\* C26, as claimed: for every recorded sample, the stored duration equals
\* raw_duration - bench_overhead * sample_size, saturating at zero, and is
\* replaced by the precision floor when the result is zero; the overhead is
\* subtracted from every sample, including the sample that ends tuning.
C26_StoredDurationFlooredAtPrecision ==
    PushedSample =>
        LatestDuration = (IF LatestWithoutOverhead = 0 THEN shared.precision
                          ELSE LatestWithoutOverhead)

\* C26, amended: the stored duration equals raw_duration - bench_overhead *
\* sample_size, saturating at zero, and is replaced by timer_precision when the
\* result is zero: the clock's precision when bench_loop started in Tune mode,
\* zero when it started in Collect mode; the overhead is subtracted from every
\* sample, including the sample that ends tuning.
C26_StoredDurationFlooredAtTimerPrecision ==
    PushedSample =>
        /\ LatestDuration = (IF LatestWithoutOverhead = 0 THEN timer_precision
                             ELSE LatestWithoutOverhead)
        /\ timer_precision = (IF StartedInTune THEN shared.precision ELSE 0)

\* The sample that ends tuning, of two iterations, is stored without the overhead
\* of its two iterations.
C26_Witness ==
    /\ PushedSample
    /\ is_tune(last.mode)
    /\ is_collect(current_mode)
    /\ last.sample_size = 2
    /\ shared.bench_overhead = 3
    /\ last.measured = 1200
    /\ LatestDuration = 1194

\* The overhead of two iterations is all of the raw duration, 150 ps, and more: the
\* stored duration is the precision.
C26_WitnessFloored ==
    /\ PushedSample
    /\ StartedInTune
    /\ last.sample_size = 2
    /\ shared.bench_overhead = 149
    /\ last.measured = 150
    /\ LatestDuration = shared.precision

\* The strategy the sample recorder used in the latest sample, as its calls show:
\* defer_store is prepared in the DeferStore branches only, and outputs are stored
\* in slot pairs only.
UsedStrategy ==
    IF \A j \in DOMAIN trace : trace[j].op # "prepare" THEN "counted loop"
    ELSE IF \E j \in DOMAIN trace : trace[j].op = "store_output" THEN "slot pairs"
    ELSE "input only"

\* The latest sample was recorded, with at least one iteration.
RecordedIterations == last.started /\ last.sample_size >= 1

InputHasStorage == ~types.i_zst
OutputHasStorage == ~types.o_zst
OutputNeedsDrop == types.o_drop

\* C27, as claimed: the counted loop without DeferStore whenever the input has no
\* storage and the output either has neither storage nor drop, or needs drop
\* (whatever its storage); DeferStore with slot pairs when the input has storage
\* and the output needs drop; DeferStore input-only when the input has storage
\* and the output needs no drop.
C27_StrategyByTable ==
    RecordedIterations =>
        /\ (/\ ~InputHasStorage
            /\ \/ ~OutputHasStorage /\ ~OutputNeedsDrop
               \/ OutputNeedsDrop)
           => UsedStrategy = "counted loop"
        /\ (InputHasStorage /\ OutputNeedsDrop) => UsedStrategy = "slot pairs"
        /\ (InputHasStorage /\ ~OutputNeedsDrop) => UsedStrategy = "input only"

\* C27, amended: the counted loop without DeferStore exactly when the input has no
\* storage and the output has no storage or needs no drop; otherwise DeferStore,
\* with slot pairs when the output needs drop (the input has storage, or the
\* output has storage and needs drop) and input-only when it does not (the input
\* has storage).
C27_StrategyByStorageAndDrop ==
    RecordedIterations =>
        UsedStrategy =
            (IF ~InputHasStorage /\ (~OutputHasStorage \/ ~OutputNeedsDrop)
             THEN "counted loop"
             ELSE IF OutputNeedsDrop THEN "slot pairs"
             ELSE "input only")

\* An input without storage and an output with storage that needs drop: the
\* outputs of the sample are stored in slot pairs and dropped after sample_end.
C27_Witness ==
    /\ RecordedIterations
    /\ ~InputHasStorage
    /\ OutputHasStorage
    /\ OutputNeedsDrop
    /\ UsedStrategy = "slot pairs"
    /\ last.sample_size = 2

\* An input without storage and an output with storage that needs no drop: the
\* counted loop.
C27_WitnessCounted ==
    /\ RecordedIterations
    /\ ~InputHasStorage
    /\ OutputHasStorage
    /\ ~OutputNeedsDrop
    /\ UsedStrategy = "counted loop"

\* The sum of the user's counts of a kind over the inputs of the latest sample, as
\* a number without a width.
LatestCountSum(kind) ==
    SumSeq([j \in 1..last.sample_size |-> UserCount(kind, LatestInputs[j])])

\* C28: the per-iteration count pushed for a sample never exceeds
\* MaxCountUInt::MAX, so the cast of total_count / sample_size to MaxCountUInt
\* never truncates, for every sample size and every sequence of per-input counts;
\* the u128 total does not saturate either.
C28_PerIterCountFitsMaxCountUInt ==
    CountedSample =>
        \A kind \in Kinds :
            counters[kind].uses_input =>
                LET column == counters[kind].counts
                IN  /\ LatestCountSum(kind) <= MaxTotal
                    /\ LatestCountSum(kind) \div last.sample_size <= MaxCount
                    /\ column[Len(column)] = LatestCountSum(kind) \div last.sample_size

\* A sample of four inputs, each counting MaxCountUInt::MAX bytes.
C28_Witness ==
    /\ CountedSample
    /\ gen_input = "huge"
    /\ last.sample_size = 4
    /\ LatestCountSum("Bytes") = 4 * MaxCount
    /\ counters["Bytes"].counts = <<MaxCount>>

\* The leaves of a forest in their order, each with the raw_name fields of the
\* Parents above it, outermost first.
RECURSIVE LeavesUnder(_, _)
LeavesUnder(tree_0, chain) ==
    Flatten([i \in DOMAIN tree_0 |->
                IF tree_0[i].kind = "Parent"
                THEN LeavesUnder(tree_0[i].children, Append(chain, tree_0[i].raw_name))
                ELSE <<[entry |-> tree_0[i].entry, chain |-> chain]>>])

\* No two Parents that are siblings have the same raw_name field, at any depth.
RECURSIVE SiblingParentsDiffer(_)
SiblingParentsDiffer(tree_0) ==
    \A i \in DOMAIN tree_0 :
        tree_0[i].kind = "Parent" =>
            /\ \A j \in DOMAIN tree_0 :
                    (j # i /\ tree_0[j].kind = "Parent")
                        => tree_0[j].raw_name # tree_0[i].raw_name
            /\ SiblingParentsDiffer(tree_0[i].children)

\* Every Parent has a Leaf below it, at any depth.
RECURSIVE ParentsHaveLeaves(_)
ParentsHaveLeaves(tree_0) ==
    \A i \in DOMAIN tree_0 :
        tree_0[i].kind = "Parent" =>
            /\ LeavesUnder(tree_0[i].children, <<>>) # <<>>
            /\ ParentsHaveLeaves(tree_0[i].children)

\* C30: the forest from_benches returns for a sequence of entries has each entry as
\* exactly one Leaf, under the chain of Parents named by the components of its path
\* in order, and has no other Leaf; no two sibling Parents have the same raw_name,
\* and every Parent has a Leaf below it.
C30_FromBenchesForest ==
    (Building /\ Built) =>
        LET leaves == LeavesUnder(tree, <<>>)
        IN  /\ \A k \in DOMAIN benches :
                    LET at == { i \in DOMAIN leaves : leaves[i].entry = benches[k] }
                    IN  /\ Cardinality(at) = 1
                        /\ \A i \in at : leaves[i].chain = benches[k].path
            /\ Len(leaves) = Len(benches)
            /\ SiblingParentsDiffer(tree)
            /\ ParentsHaveLeaves(tree)

\* Three entries, the first and the third of one module and the second of the
\* module above it: one Parent of a Parent and a Leaf, the inner Parent of two
\* leaves.
C30_Witness ==
    /\ Building
    /\ Built
    /\ Len(benches) = 3
    /\ benches[1].path = benches[3].path
    /\ Len(benches[1].path) = 2
    /\ Len(benches[2].path) = 1
    /\ Len(tree) = 1
    /\ Len(tree[1].children) = 2
    /\ Len(tree[1].children[1].children) = 2

\* Entries of two crates, in turn: two Parents at the top.
C30_WitnessTwoCrates ==
    /\ Building
    /\ Built
    /\ Len(benches) = 3
    /\ benches[1].path = benches[3].path
    /\ benches[1].path[1] # benches[2].path[1]
    /\ Len(tree) = 2

\* The strings of names with separator between them; names is not empty.
RECURSIVE JoinedBy(_, _)
JoinedBy(names, separator) ==
    IF Len(names) = 1 THEN names[1]
    ELSE names[1] \o separator \o JoinedBy(Tail(names), separator)

\* The leaves of a forest in their order, each with the display names of the Parents
\* above it, outermost first, and then its own.
RECURSIVE LeavesNamed(_, _)
LeavesNamed(tree_0, names) ==
    Flatten([i \in DOMAIN tree_0 |->
                IF tree_0[i].kind = "Parent"
                THEN LeavesNamed(tree_0[i].children,
                                 Append(names, display_name(tree_0[i])))
                ELSE <<[entry |-> tree_0[i].entry,
                        names |-> Append(names, display_name(tree_0[i]))]>>])

\* No Parent is without children, at any depth.
RECURSIVE NoEmptyParent(_)
NoEmptyParent(tree_0) ==
    \A i \in DOMAIN tree_0 :
        tree_0[i].kind = "Parent" =>
            /\ tree_0[i].children # <<>>
            /\ NoEmptyParent(tree_0[i].children)

\* The full path of the leaf satisfies the filter retain was called with.
SatisfiesFilter(leaf) == JoinedBy(leaf.names, PathSeparator) \in tree_op.filter

\* C29: after EntryTree::retain the leaves of the tree are the leaves it had whose
\* full path, the display names of the ancestors and of the leaf joined by "::",
\* satisfies the filter, in the order they had, and no Parent is without children
\* at any depth.
C29_RetainKeepsAcceptedLeaves ==
    tree_op.op = "retain" =>
        /\ LeavesNamed(tree, <<>>) = SelectSeq(LeavesNamed(tree_was, <<>>), SatisfiesFilter)
        /\ NoEmptyParent(tree)

\* A crate is removed with its leaves and another is kept with one of two leaves.
C29_Witness ==
    /\ tree_op.op = "retain"
    /\ Len(tree_was) = 2
    /\ Len(tree) = 1
    /\ Len(LeavesNamed(tree_was, <<>>)) = 3
    /\ Len(LeavesNamed(tree, <<>>)) = 1
    /\ tree[1].children # tree_was[1].children
    /\ tree[1].children # tree_was[2].children

\* A leaf is kept under a Parent that is displayed under the name of its group.
C29_WitnessGroup ==
    /\ tree_op.op = "retain"
    /\ \E i \in DOMAIN LeavesNamed(tree, <<>>) :
            LeavesNamed(tree, <<>>)[i].names[2] = <<"B">>
    /\ Len(LeavesNamed(tree, <<>>)) < Len(LeavesNamed(tree_was, <<>>))

\* Both of two leaves of one full path are kept, and a third leaf is not.
C29_WitnessSamePath ==
    /\ tree_op.op = "retain"
    /\ Len(LeavesNamed(tree_was, <<>>)) = 3
    /\ Len(LeavesNamed(tree, <<>>)) = 2
    /\ LeavesNamed(tree, <<>>)[1].names = LeavesNamed(tree, <<>>)[2].names

\* The forests have the same nodes in the same order: the same leaves and Parents
\* of the same raw_name, whatever their groups.
RECURSIVE SameNodes(_, _)
SameNodes(old, new) ==
    /\ Len(old) = Len(new)
    /\ \A i \in DOMAIN old :
            /\ old[i].kind = new[i].kind
            /\ IF old[i].kind = "Leaf" THEN old[i] = new[i]
               ELSE /\ old[i].raw_name = new[i].raw_name
                    /\ SameNodes(old[i].children, new[i].children)

\* The Parents whose group slot differs between two forests of the same nodes, each
\* with the raw_name fields of the Parents above it and what the slot holds now.
RECURSIVE SlotsSet(_, _, _)
SlotsSet(old, new, chain) ==
    UNION { IF old[i].kind = "Leaf" THEN {}
            ELSE (IF old[i].group = new[i].group THEN {}
                  ELSE {[chain |-> chain, raw_name |-> new[i].raw_name,
                         group |-> new[i].group]})
                 \cup SlotsSet(old[i].children, new[i].children,
                               Append(chain, old[i].raw_name)) : i \in DOMAIN old }

\* The Parents of the forest, each with the raw_name fields of the Parents above it.
RECURSIVE ParentsUnder(_, _)
ParentsUnder(tree_0, chain) ==
    UNION { IF tree_0[i].kind = "Leaf" THEN {}
            ELSE {[chain |-> chain, raw_name |-> tree_0[i].raw_name]}
                 \cup ParentsUnder(tree_0[i].children, Append(chain, tree_0[i].raw_name))
            : i \in DOMAIN tree_0 }

\* C31: EntryTree::insert_group adds, removes and reorders no node; it sets the
\* group slot of at most one Parent, one that is below Parents named by the
\* components of the group's module path and is itself named by the group's
\* raw_name; the tree is unchanged when no Parent matches the group.
C31_InsertGroupSetsOneSlot ==
    tree_op.op = "insert_group" =>
        LET group == tree_op.group
            target == [chain |-> group.path, raw_name |-> group.raw_name]
        IN  /\ SameNodes(tree_was, tree)
            /\ Cardinality(SlotsSet(tree_was, tree, <<>>)) <= 1
            /\ \A slot \in SlotsSet(tree_was, tree, <<>>) :
                    /\ slot.chain = group.path
                    /\ slot.raw_name = group.raw_name
                    /\ slot.group = SomeGroup(group)
            /\ target \notin ParentsUnder(tree_was, <<>>) => tree = tree_was

\* The group of module a::r#b is set on the second Parent below crate a, next to a
\* leaf and another Parent.
C31_Witness ==
    /\ tree_op.op = "insert_group"
    /\ Len(tree_was) = 1
    /\ Len(tree_was[1].children) = 3
    /\ tree_was[1].children[1].kind = "Leaf"
    /\ tree_was[1].children[2].kind = "Parent"
    /\ tree_was[1].children[3].kind = "Parent"
    /\ tree[1].children[3].group = SomeGroup(tree_op.group)
    /\ SlotsSet(tree_was, tree, <<>>) # {}

\* A group no Parent is named as, in a tree that has the crate of the group.
C31_WitnessNoMatch ==
    /\ tree_op.op = "insert_group"
    /\ tree_op.group.raw_name = <<"c">>
    /\ \E i \in DOMAIN tree_was : tree_was[i].raw_name = <<"r", "#", "b">>
    /\ tree = tree_was

\* C35: in a run whose samples keep measuring at most 100 times the precision, the
\* doubling of the sample size in Tune mode never overflows a u32: after every
\* such sample the driver is in Tune mode with twice the sample size, which fits
\* a u32, and bench_loop has not faulted.
C35_DoublingStaysWithinU32 ==
    (TunedSample /\ LatestRawDuration <= 100 * timer_precision) =>
        /\ pc # "panicked"
        /\ last.sample_size * 2 <= MaxSampleSize
        /\ current_mode = TuneMode(last.sample_size * 2)

\* What the code does: the doubling is exact while it fits a u32; when it does not,
\* the build with overflow checks panics after clearing the samples, and the build
\* without them goes on in Tune mode with the product wrapped to the width.
C35_DoublingWrapsOrPanics ==
    (TunedSample /\ last.sample_size >= 1
        /\ LatestRawDuration <= 100 * timer_precision) =>
        IF last.sample_size * 2 <= MaxSampleSize
        THEN pc # "panicked" /\ current_mode = TuneMode(last.sample_size * 2)
        ELSE IF overflow_checks
        THEN pc = "panicked" /\ samples.all = <<>> /\ current_mode = last.mode
        ELSE current_mode = TuneMode(0)

\* The sample after the wrap has no iteration.
C35_SampleOfNoIteration ==
    /\ TunedSample
    /\ last.sample_size = 0
    /\ pc = "loop"
    /\ Len(samples.all) = 1
    /\ samples.sample_size = 0

\* A step of the loop of bench_loop moves the mode forward: Test stays Test, Tune
\* goes to Tune or Collect, Collect stays Collect with its sample size.
ModeMovesForward ==
    /\ is_test(current_mode) => is_test(current_mode')
    /\ is_tune(current_mode) => (is_tune(current_mode') \/ is_collect(current_mode'))
    /\ is_collect(current_mode) => current_mode' = current_mode

\* The sample sizes tried in Tune mode: 1 at first, and after a sample either the
\* same (the sample is not accounted for), or next(sample_size).
TuneTries(next) ==
    is_tune(current_mode) =>
        /\ iters = 0 => current_mode.sample_size = 1
        /\ is_tune(current_mode') =>
                current_mode'.sample_size \in {current_mode.sample_size, next}

\* C32: the mode of the driver only moves forward: Test stays Test, Tune goes to
\* Tune or Collect, Collect stays Collect; the sample sizes tried in Tune are 1, 2,
\* 4, ..., each the double of the one before; once Collect is reached the sample
\* size does not change.
C32_ModeMovesForward ==
    [][pc = "loop" => (ModeMovesForward /\ TuneTries(2 * current_mode.sample_size))]_vars

\* C32 with the sizes the code tries: each is the double of the one before in the
\* width of a u32.
C32_ModeMovesForwardInWidth ==
    [][pc = "loop" =>
        (ModeMovesForward /\ TuneTries(WrappingDouble(current_mode.sample_size)))]_vars

\* The driver tries a sample size of 0 after one of 8.
C32_TriesZeroAfterEight ==
    /\ pc = "loop"
    /\ TunedSample
    /\ last.sample_size = 8
    /\ current_mode = TuneMode(0)

\* C33: compute_stats completes without fault in every state bench_loop returns
\* in, and on a context bench_loop was never called on; when no sample was
\* recorded it reports sample_count 0, iter_count 0 and zero mean, fastest,
\* slowest and median times.
C33_ComputeStatsNeverFaults ==
    stats.called =>
        /\ stats.returned
        /\ samples.all = <<>> =>
              /\ stats.sample_count = 0
              /\ stats.iter_count = 0
              /\ stats.time = [mean |-> 0, fastest |-> 0, slowest |-> 0, median |-> 0]

\* What the code does: compute_stats returns exactly when samples were recorded
\* with a sample size that is not 0.
C33_ComputeStatsFaultsWithoutSamples ==
    stats.called =>
        (stats.returned <=> (samples.all # <<>> /\ samples.sample_size # 0))

\* compute_stats faults on the context of a benchmark that was run as a test.
C33_FaultsAfterTest ==
    /\ stats.called
    /\ ~stats.returned
    /\ shared.action = "test"
    /\ did_run
    /\ samples.all = <<>>
    /\ samples.sample_size = 1

\* Every recorded sample has at least one iteration, and neither bench_loop nor
\* compute_stats has divided by a sample size of 0.
SampleSizeAtLeastOne ==
    /\ samples.all # <<>> => samples.sample_size >= 1
    /\ (last.started /\ ~is_test(last.mode)) => last.sample_size >= 1
    /\ (stats.called /\ samples.all # <<>>) => stats.returned

\* C34: every sample is recorded with sample_size >= 1, for every value of the
\* sample_size option, so neither the per-input counter average of bench_loop nor
\* the per-iteration fastest, slowest and median of compute_stats divides by zero.
C34_SampleSizeAtLeastOne == SampleSizeAtLeastOne

\* What the code does: C34 for every value of the sample_size option but 0.
C34_SampleSizeAtLeastOneUnlessOptionZero ==
    options.sample_size # 0 => SampleSizeAtLeastOne

\* bench_loop divides the counter total of a sample without inputs by its size.
C34_DividesCounterTotalByZero ==
    /\ options.sample_size = 0
    /\ pc = "panicked"
    /\ last.started
    /\ last.sample_size = 0
    /\ Len(samples.all) = 1

\* compute_stats divides the duration of a sample without iterations by its size.
C34_DividesDurationByZero ==
    /\ options.sample_size = 0
    /\ samples.all # <<>>
    /\ samples.sample_size = 0
    /\ stats.called
    /\ ~stats.returned

\* bench_loop has left its loop, on the loop condition, in Tune mode.
ReturnedInTune == pc = "done" /\ ~ShortCircuits /\ is_tune(current_mode)

\* C36: when the max_time budget runs out while the driver is in Tune mode,
\* bench_loop returns with exactly one sample in the collection, the last tuning
\* sample, and exactly one entry in the column of every counter kind that uses
\* per-input counts; samples.sample_size is the number of iterations of that
\* sample.
C36_TuneOutOfTimeLeavesOneSample ==
    ReturnedInTune =>
        /\ elapsed_picos >= max_time
        /\ last.started
        /\ is_tune(last.mode)
        /\ Len(samples.all) = 1
        /\ samples.all[1].size = last.sample_size
        /\ samples.sample_size = last.sample_size
        /\ \A kind \in Kinds :
                counters[kind].uses_input => Len(counters[kind].counts) = 1

\* The budget runs out after the second tuning sample, of two iterations, of a
\* benchmark with per-input counters.
C36_Witness ==
    /\ ReturnedInTune
    /\ iters = 2
    /\ samples.sample_size = 2
    /\ Len(samples.all) = 1
    /\ counters["Bytes"].uses_input
    /\ Len(counters["Bytes"].counts) = 1

\* C37: for every sample collection that is not empty and has sample_size >= 1,
\* compute_stats returns a mean time between the fastest and the slowest time:
\* fastest <= mean <= slowest, the integer divisions notwithstanding.
C37_MeanBetweenFastestAndSlowest ==
    (stats.called /\ samples.all # <<>> /\ samples.sample_size >= 1) =>
        /\ stats.returned
        /\ stats.time.fastest <= stats.time.mean
        /\ stats.time.mean <= stats.time.slowest

\* Samples of two iterations whose durations differ and whose mean is rounded.
C37_Witness ==
    /\ stats.called
    /\ stats.returned
    /\ samples.sample_size = 2
    /\ Len(samples.all) = 3
    /\ SumOfDurations % IterationsOfSamples # 0
    /\ stats.time.fastest < stats.time.mean
    /\ stats.time.mean < stats.time.slowest

\* Samples of one duration: the three times are equal.
C37_WitnessEqual ==
    /\ stats.called
    /\ stats.returned
    /\ samples.sample_size = 2
    /\ Len(samples.all) = 2
    /\ stats.time.fastest = stats.time.mean
    /\ stats.time.mean = stats.time.slowest

====
